---- MODULE Spec2Model ----
(***************************************************************************)
(* A model of the G-code interpreter (core/interpreter.py and the objects  *)
(* it drives: lexer, parser, machine state, geometry manager, G/M-code     *)
(* handlers, O-word processor).                                            *)
(*                                                                         *)
(* Encoding.  Coordinates and word values are integers.  G-code numbers    *)
(* are kept in tenths, so that the fractional codes of the source (59.1,   *)
(* 90.1, 91.1, 92.1 ...) are integers too: G(1) = 10 is G1, Gd(90,1) = 901 *)
(* is G90.1.  The order of the tenths is the order of the floats, which is *)
(* what sorted(block.g_codes.keys()) uses.  M-code numbers are plain       *)
(* integers.                                                               *)
(*                                                                         *)
(* A source line is a record [words, kw, expr]: the letter+number words in *)
(* source order, the bare keyword text that follows an O word ("while",    *)
(* "call", ... or "" when there is none) and the values of the bracketed   *)
(* expressions of the line.                                                *)
(***************************************************************************)
EXTENDS Integers, Sequences, FiniteSets, TLC

VARIABLES interp, pc, runs, result

vars == <<interp, pc, runs, result>>

\* ---------------------------------------------------------------- helpers

G(n) == 10 * n
Gd(n, d) == 10 * n + d

W(l, v) == [l |-> l, v |-> v]

SetMax(S) == CHOOSE m \in S : \A k \in S : k <= m
SetMin(S) == CHOOSE m \in S : \A k \in S : m <= k

RECURSIVE SortedSeq(_)
\* sorted(...) of a finite set of integers
SortedSeq(S) == IF S = {} THEN <<>> ELSE <<SetMin(S)>> \o SortedSeq(S \ {SetMin(S)})

RECURSIVE Concat(_)
Concat(ss) == IF ss = <<>> THEN <<>> ELSE Head(ss) \o Concat(Tail(ss))

AxisLetters == <<"x", "y", "z", "a", "b", "c", "u", "v", "w">>
Axes == {AxisLetters[i] : i \in DOMAIN AxisLetters}

\* ----------------------------------------------------------- utils/errors

GCodeError(line_number, message, error_type, severity, detail) ==
    [line_number |-> line_number, message |-> message,
     error_type |-> error_type, severity |-> severity, detail |-> detail]

\* ErrorCollector.add_error with the default severity ERROR
Err(line_number, message, error_type, detail) ==
    GCodeError(line_number, message, error_type, "error", detail)

has_fatal_errors(errors) == \E i \in DOMAIN errors : errors[i].severity = "fatal"

has_errors(errors) == \E i \in DOMAIN errors : errors[i].severity \in {"error", "fatal"}

\* ------------------------------------------------------------- core/lexer

\* token_map of _get_token_type_for_letter: the letters that make a token
TokenLetters == {"G", "M", "O", "X", "Y", "Z", "A", "B", "C", "U", "V", "W",
                 "I", "J", "K", "L", "P", "Q", "R", "H", "F", "S", "T", "N"}

\* Number of characters of a keyword.  WORD_PATTERN wants a number (or a
\* #variable) right after the letter, so every character of a bare keyword
\* is an "Unrecognized character".
KeywordLen(kw) ==
    CASE kw = "" -> 0
      [] kw = "if" -> 2
      [] kw = "sub" -> 3
      [] kw \in {"call", "else"} -> 4
      [] kw \in {"while", "break", "endif"} -> 5
      [] kw \in {"endsub", "repeat", "return", "elseif"} -> 6
      [] kw = "continue" -> 8
      [] kw = "endwhile" -> 8
      [] kw = "endrepeat" -> 9

\* _tokenize_line: the tokens of one line and the diagnostics it records.
\* A word is a token when its letter is in token_map, otherwise a SYNTAX
\* error; a bracketed expression is an EXPRESSION token; the keyword gives
\* one SYNTAX error per character and no token.
TokenizeLine(line, line_number) ==
    LET ws == line.words
        wordTok(i) == IF ws[i].l \in TokenLetters
                      THEN <<[type |-> ws[i].l, value |-> ws[i].v, line_number |-> line_number]>>
                      ELSE <<>>
        wordErr(i) == IF ws[i].l \in TokenLetters THEN <<>>
                      ELSE <<Err(line_number, "Unknown G-code letter", "syntax", ws[i].l)>>
        exprTok(i) == <<[type |-> "EXPRESSION", value |-> line.expr[i], line_number |-> line_number]>>
        kwErrs == [i \in 1..KeywordLen(line.kw) |->
                     Err(line_number, "Unrecognized character", "syntax", line.kw)]
    IN [tokens |-> Concat([i \in DOMAIN ws |-> wordTok(i)])
                    \o Concat([i \in DOMAIN line.expr |-> exprTok(i)]),
        errors |-> Concat([i \in DOMAIN ws |-> wordErr(i)]) \o kwErrs]

\* tokenize: per line its tokens (the NEWLINE that ends each line and the
\* final EOF are the boundaries of the per-line sequences) and all errors.
Tokenize(text) ==
    LET per == [n \in DOMAIN text |-> TokenizeLine(text[n], n)]
    IN [lines |-> [n \in DOMAIN text |-> per[n].tokens],
        errors |-> Concat([n \in DOMAIN text |-> per[n].errors])]

\* ------------------------------------------------------------ core/parser

\* Block field of each word token type (_process_token); G, M and O go to
\* g_codes, m_codes and o_word, comments and EXPRESSION tokens set no field.
FieldOf ==
    [X |-> "x", Y |-> "y", Z |-> "z", A |-> "a", B |-> "b", C |-> "c",
     U |-> "u", V |-> "v", W |-> "w",
     I |-> "i", J |-> "j", K |-> "k", L |-> "l", P |-> "p", Q |-> "q",
     R |-> "r", H |-> "h", F |-> "f", S |-> "s", T |-> "t", N |-> "n"]

\* One whitespace-separated part of an o_word string: s is its text class
\* ("" a bare number, "O" a number prefixed by O, a keyword, "[" a bracketed
\* expression), n its number.
OPart(s, n) == [s |-> s, n |-> n]

\* GCodeParser.MODAL_GROUPS, in the order of the dict
MODAL_GROUP_NAMES ==
    <<"motion", "plane", "distance", "arc_distance", "feed_rate_mode", "units",
      "cutter_comp", "tool_length", "coordinate_system", "path_control",
      "return_mode", "non_modal">>

MODAL_GROUPS ==
    [motion |-> {G(0), G(1), G(2), G(3), G(33), G(38), G(73), G(76), G(80), G(81),
                 G(82), G(83), G(84), G(85), G(86), G(87), G(88), G(89)},
     plane |-> {G(17), G(18), G(19)},
     distance |-> {G(90), G(91)},
     arc_distance |-> {Gd(90, 1), Gd(91, 1)},
     feed_rate_mode |-> {G(93), G(94), G(95)},
     units |-> {G(20), G(21)},
     cutter_comp |-> {G(40), G(41), G(42)},
     tool_length |-> {G(43), G(49)},
     coordinate_system |-> {G(54), G(55), G(56), G(57), G(58), G(59),
                            Gd(59, 1), Gd(59, 2), Gd(59, 3)},
     path_control |-> {G(61), Gd(61, 1), G(64)},
     return_mode |-> {G(98), G(99)},
     non_modal |-> {G(4), G(10), G(28), G(30), G(53), G(92),
                    Gd(92, 1), Gd(92, 2), Gd(92, 3)}]

\* The Block that _process_token builds from the tokens of one line: a
\* later word of the same letter overwrites an earlier one, the codes are
\* the keys of a dict.  w holds the axis, parameter and setting words that
\* are not None.
Block(tokens, line_number) ==
    LET idx(l) == {i \in DOMAIN tokens : tokens[i].type = l}
        present == {l \in DOMAIN FieldOf : idx(l) # {}}
    IN [line_number |-> line_number,
        g_codes |-> {tokens[i].value : i \in idx("G")},
        m_codes |-> {tokens[i].value : i \in idx("M")},
        o_word |-> IF idx("O") = {} THEN <<>>
                   ELSE <<OPart("", tokens[SetMax(idx("O"))].value)>>,
        w |-> [f \in {FieldOf[l] : l \in present} |->
                 tokens[SetMax(idx(CHOOSE l \in present : FieldOf[l] = f))].value],
        tokens |-> tokens]

has_axis_words(block) == DOMAIN block.w \cap Axes # {}

\* A validation that knows no exception for G53
BlockErrorsStrict(block) ==
    LET active(g) == block.g_codes \cap MODAL_GROUPS[g]
        error_tokens(g) == {i \in DOMAIN block.tokens :
                              block.tokens[i].type = "G" /\ block.tokens[i].value \in active(g)}
        groupErr(k) ==
            LET g == MODAL_GROUP_NAMES[k]
            IN IF Cardinality(active(g)) > 1 /\ error_tokens(g) # {}
               THEN <<Err(block.line_number, "Multiple codes from modal group", "semantic", g)>>
               ELSE <<>>
        g0g1 == IF block.g_codes \cap MODAL_GROUPS["non_modal"] # {}
                   /\ block.g_codes \cap MODAL_GROUPS["motion"] # {} /\ has_axis_words(block)
                THEN <<Err(block.line_number, "Group 0 code conflicts with motion code",
                           "semantic", "group0")>>
                ELSE <<>>
    IN Concat([k \in DOMAIN MODAL_GROUP_NAMES |-> groupErr(k)]) \o g0g1

\* _is_block_valid: the diagnostics it records; the block is valid when
\* there are none.
BlockErrors(block) ==
    LET active(g) == block.g_codes \cap MODAL_GROUPS[g]
        error_tokens(g) == {i \in DOMAIN block.tokens :
                              block.tokens[i].type = "G" /\ block.tokens[i].value \in active(g)}
        groupErr(k) ==
            LET g == MODAL_GROUP_NAMES[k]
            IN IF Cardinality(active(g)) > 1 /\ error_tokens(g) # {}
               THEN <<Err(block.line_number, "Multiple codes from modal group", "semantic", g)>>
               ELSE <<>>
        group0_codes == block.g_codes \cap MODAL_GROUPS["non_modal"]
        group1_codes == block.g_codes \cap MODAL_GROUPS["motion"]
        g0g1 == IF group0_codes # {} /\ group1_codes # {} /\ has_axis_words(block)
                   /\ ~(Cardinality(group0_codes) = 1 /\ G(53) \in group0_codes)
                THEN <<Err(block.line_number, "Group 0 code conflicts with motion code",
                           "semantic", "group0")>>
                ELSE <<>>
    IN Concat([k \in DOMAIN MODAL_GROUP_NAMES |-> groupErr(k)]) \o g0g1

is_block_valid(block) ==
    /\ \A k \in DOMAIN MODAL_GROUP_NAMES :
          Cardinality(block.g_codes \cap MODAL_GROUPS[MODAL_GROUP_NAMES[k]]) <= 1
    /\ BlockErrors(block) = <<>>

\* A parser that also returns the blocks it reported as invalid
ParseKeepingInvalid(lines) ==
    LET blk(n) == Block(lines[n], n)
        keep(n) == IF lines[n] # <<>> THEN <<blk(n)>> ELSE <<>>
        errs(n) == IF lines[n] # <<>> THEN BlockErrors(blk(n)) ELSE <<>>
    IN [blocks |-> Concat([n \in DOMAIN lines |-> keep(n)]),
        errors |-> Concat([n \in DOMAIN lines |-> errs(n)])]

\* GCodeParser.parse: one block per line that has tokens; only the valid
\* ones are appended to the returned list.
Parse(lines) ==
    LET blk(n) == Block(lines[n], n)
        keep(n) == IF lines[n] # <<>> /\ is_block_valid(blk(n)) THEN <<blk(n)>> ELSE <<>>
        errs(n) == IF lines[n] # <<>> THEN BlockErrors(blk(n)) ELSE <<>>
    IN [blocks |-> Concat([n \in DOMAIN lines |-> keep(n)]),
        errors |-> Concat([n \in DOMAIN lines |-> errs(n)])]

\* -------------------------------------------------------- float arithmetic

(***************************************************************************)
(* Python floats are IEEE 754 binary64.  On integer values below 2^53 their *)
(* sums and differences are exact, which is why the interpreter model works *)
(* on integers.  Where rounding matters a float is modelled exactly, as a   *)
(* dyadic [neg, mag, e] of value (-1)^neg * mag * 2^e, mag a natural number *)
(* written as its bits, least significant first, with no leading zero and,  *)
(* once normalised, no trailing zero (zero is [FALSE, <<>>, 0]).  The       *)
(* results kept as floats have at most 53 bits: FAdd rounds the exact sum   *)
(* to nearest, ties to even.  Overflow, subnormals, the sign of zero, NaN   *)
(* and the infinities are outside the values the model meets.               *)
(***************************************************************************)
MantissaBits == 53

\* Drop the leading (most significant) zero bits
Trim(b) ==
    LET ones == {i \in DOMAIN b : b[i] = 1}
    IN IF ones = {} THEN <<>> ELSE SubSeq(b, 1, SetMax(ones))

BitAt(b, i) == IF i \in DOMAIN b THEN b[i] ELSE 0

\* The carry out of bit i of a + b
Carry(a, b, i) ==
    \E j \in 1..i : /\ BitAt(a, j) + BitAt(b, j) = 2
                    /\ \A k \in (j + 1)..i : BitAt(a, k) + BitAt(b, k) >= 1

NatAdd(a, b) ==
    LET n == (IF Len(a) > Len(b) THEN Len(a) ELSE Len(b)) + 1
    IN Trim([i \in 1..n |->
               (BitAt(a, i) + BitAt(b, i) + IF Carry(a, b, i - 1) THEN 1 ELSE 0) % 2])

\* The borrow out of bit i of a - b
Borrow(a, b, i) ==
    \E j \in 1..i : /\ BitAt(a, j) < BitAt(b, j)
                    /\ \A k \in (j + 1)..i : BitAt(a, k) <= BitAt(b, k)

\* a - b for a >= b
NatSub(a, b) ==
    Trim([i \in 1..Len(a) |->
            (BitAt(a, i) - BitAt(b, i) - (IF Borrow(a, b, i - 1) THEN 1 ELSE 0) + 2) % 2])

NatLess(a, b) ==
    IF Len(a) # Len(b) THEN Len(a) < Len(b)
    ELSE \E i \in DOMAIN a : a[i] < b[i] /\ \A j \in DOMAIN a : j > i => a[j] = b[j]

\* a * 2^k
ShiftLeft(a, k) ==
    IF a = <<>> THEN <<>> ELSE [i \in 1..(Len(a) + k) |-> IF i <= k THEN 0 ELSE a[i - k]]

RECURSIVE Bits(_)
\* The bits of a natural number
Bits(n) == IF n = 0 THEN <<>> ELSE <<n % 2>> \o Bits(n \div 2)

Dyadic(neg, mag, e) == [neg |-> neg, mag |-> mag, e |-> e]

\* The same value with an odd mag (or zero)
Normalize(x) ==
    LET ones == {i \in DOMAIN x.mag : x.mag[i] = 1}
    IN IF ones = {} THEN Dyadic(FALSE, <<>>, 0)
       ELSE Dyadic(x.neg, SubSeq(x.mag, SetMin(ones), Len(x.mag)), x.e + SetMin(ones) - 1)

Neg(x) == IF x.mag = <<>> THEN x ELSE Dyadic(~x.neg, x.mag, x.e)

Abs(x) == Dyadic(FALSE, x.mag, x.e)

\* mag of x in units of 2^e, for e <= x.e
MagAt(x, e) == ShiftLeft(x.mag, x.e - e)

\* The exact sum of two dyadics at their smaller exponent e
ExactAddAt(x, y, e) ==
    IF x.neg = y.neg THEN Dyadic(x.neg, NatAdd(MagAt(x, e), MagAt(y, e)), e)
    ELSE IF NatLess(MagAt(x, e), MagAt(y, e))
    THEN Dyadic(y.neg, NatSub(MagAt(y, e), MagAt(x, e)), e)
    ELSE Dyadic(x.neg, NatSub(MagAt(x, e), MagAt(y, e)), e)

ExactAdd(x, y) == Normalize(ExactAddAt(x, y, IF x.e < y.e THEN x.e ELSE y.e))

\* x <= y for two dyadics that are not negative
DyadicLeq(x, y) == ExactAdd(y, Neg(x)).neg = FALSE

\* Round a dyadic of k bits too many to nearest, ties to even
RoundOff(x, k) ==
    LET kept == SubSeq(x.mag, k + 1, Len(x.mag))
        sticky == \E i \in 1..(k - 1) : x.mag[i] = 1
        up == x.mag[k] = 1 /\ (sticky \/ kept[1] = 1)
    IN Dyadic(x.neg, IF up THEN NatAdd(kept, <<1>>) ELSE kept, x.e + k)

\* The float nearest to a dyadic
RoundToFloat(x) ==
    IF Len(x.mag) <= MantissaBits THEN x
    ELSE Normalize(RoundOff(x, Len(x.mag) - MantissaBits))

\* float + float and float - float
FAdd(x, y) == RoundToFloat(ExactAdd(x, y))

FSub(x, y) == FAdd(x, Neg(y))

\* The float of mantissa hi * 2^27 + lo and exponent e
Float(neg, hi, lo, e) == Normalize(Dyadic(neg, NatAdd(ShiftLeft(Bits(hi), 27), Bits(lo)), e))

\* The float of a small integer
FloatOfInt(n) == Normalize(Dyadic(n < 0, Bits(IF n < 0 THEN -n ELSE n), 0))

\* ----------------------------------------------------- core/machine_state

None == <<>>
Some(v) == <<v>>

\* Position() and CoordinateSystem(): all nine axes 0.0
Position == [a \in Axes |-> 0]

CoordinateSystem == [a \in Axes |-> 0]

\* Position.to_list: [x, y, z]
to_list(p) == <<p["x"], p["y"], p["z"]>>

\* MachineState.__init__ (the variables and numbered_parameters dicts of
\* MachineState are never read or written by the interpreter and are left
\* out)
MachineState ==
    [current_position |-> Position,
     previous_position |-> Position,
     modal_groups |-> [motion |-> G(1), plane |-> G(17), distance |-> G(90),
                       arc_distance |-> Gd(91, 1), feed_rate_mode |-> G(94),
                       units |-> G(21), cutter_comp |-> G(40), tool_length |-> G(49),
                       coordinate_system |-> G(54), path_control |-> G(64),
                       return_mode |-> G(98)],
     coordinate_systems |-> [c \in {G(54), G(55), G(56), G(57), G(58), G(59),
                                    Gd(59, 1), Gd(59, 2), Gd(59, 3)} |-> CoordinateSystem],
     g92_offset |-> CoordinateSystem,
     feed_rate |-> 0,
     spindle_speed |-> 0,
     current_tool |-> 0]

update_modal_group(ms, group, code) ==
    IF group \in DOMAIN ms.modal_groups
    THEN [ms EXCEPT !.modal_groups[group] = code]
    ELSE ms

get_active_coordinate_system(ms) ==
    LET cs_code == ms.modal_groups["coordinate_system"]
    IN IF cs_code \in DOMAIN ms.coordinate_systems
       THEN ms.coordinate_systems[cs_code]
       ELSE ms.coordinate_systems[G(54)]

\* get_current_plane: the two axes of the plane, and the name the arc
\* handler joins from them
get_current_plane(ms) ==
    LET plane_code == ms.modal_groups["plane"]
    IN CASE plane_code = G(17) -> <<"x", "y">>
         [] plane_code = G(18) -> <<"x", "z">>
         [] plane_code = G(19) -> <<"y", "z">>
         [] plane_code = Gd(17, 1) -> <<"u", "v">>
         [] plane_code = Gd(18, 1) -> <<"u", "w">>
         [] plane_code = Gd(19, 1) -> <<"v", "w">>
         [] OTHER -> <<"x", "y">>

PlaneName(plane_axes) ==
    CASE plane_axes = <<"x", "y">> -> "XY"
      [] plane_axes = <<"x", "z">> -> "XZ"
      [] plane_axes = <<"y", "z">> -> "YZ"
      [] plane_axes = <<"u", "v">> -> "UV"
      [] plane_axes = <<"u", "w">> -> "UW"
      [] plane_axes = <<"v", "w">> -> "VW"

calculate_absolute_position(ms, relative_position) ==
    LET active_cs == get_active_coordinate_system(ms)
    IN [a \in Axes |-> relative_position[a] + active_cs[a] + ms.g92_offset[a]]

is_distance_mode_absolute(ms) == ms.modal_groups["distance"] = G(90)

is_arc_distance_mode_absolute(ms) == ms.modal_groups["arc_distance"] = Gd(90, 1)

\* An update that saves the previous position and keeps the current one
update_position_keeping(ms, new_position) ==
    [ms EXCEPT !.previous_position = ms.current_position]

update_position(ms, new_position) ==
    [ms EXCEPT !.previous_position = ms.current_position,
               !.current_position = new_position]

set_coordinate_system_offset(ms, cs_number, axis, value) ==
    IF cs_number \in DOMAIN ms.coordinate_systems
    THEN [ms EXCEPT !.coordinate_systems[cs_number][axis] = value]
    ELSE ms

set_g92_offset(ms, axis, value) == [ms EXCEPT !.g92_offset[axis] = value]

\* ---------------------------------------------------------- core/geometry

\* math.sqrt on the squares the model meets: the integer root (the moves of
\* the model are along one axis or on 3-4-5 triangles, so the root is exact)
Sqrt(n) == CHOOSE r \in 0..n : r * r <= n /\ (r + 1) * (r + 1) > n

\* _calculate_arc_properties: the radius, average of the distances of the
\* start and of the end from the center, in the two axes of the plane (any
\* plane name other than XZ and YZ is read as XY).  The two angles are not
\* modelled.
calculate_arc_properties(start, end, center, plane) ==
    LET a1 == IF plane = "YZ" THEN 2 ELSE 1
        a2 == IF plane \in {"XZ", "YZ"} THEN 3 ELSE 2
        r1 == Sqrt((start[a1] - center[a1]) * (start[a1] - center[a1])
                   + (start[a2] - center[a2]) * (start[a2] - center[a2]))
        r2 == Sqrt((end[a1] - center[a1]) * (end[a1] - center[a1])
                   + (end[a2] - center[a2]) * (end[a2] - center[a2]))
    IN (r1 + r2) \div 2

\* An _add_line_mapping that files every id under line 1
add_line_mapping_first_line(line_to_segments, line_number, segment_id) ==
    [n \in DOMAIN line_to_segments \cup {1} |->
       IF n = 1 THEN (IF 1 \in DOMAIN line_to_segments THEN line_to_segments[1] ELSE <<>>)
                     \o <<segment_id>>
       ELSE line_to_segments[n]]

\* _add_line_mapping
add_line_mapping(line_to_segments, line_number, segment_id) ==
    IF line_number \in DOMAIN line_to_segments
    THEN [line_to_segments EXCEPT ![line_number] = Append(@, segment_id)]
    ELSE [n \in DOMAIN line_to_segments \cup {line_number} |->
            IF n = line_number THEN <<segment_id>> ELSE line_to_segments[n]]

\* GeometryManager.__init__ and clear (the three running lengths are not
\* modelled)
GeometryManager == [segments |-> <<>>, line_to_segments |-> <<>>, segment_counter |-> 0]

add_linear_move(gm, start, end, line_number, move_type, feed_rate) ==
    LET segment == [segment_id |-> gm.segment_counter, line_number |-> line_number,
                    move_type |-> move_type, start_point |-> start, end_point |-> end,
                    center_point |-> None, radius |-> None, plane |-> None,
                    feed_rate |-> feed_rate]
    IN [segments |-> Append(gm.segments, segment),
        line_to_segments |-> add_line_mapping(gm.line_to_segments, line_number, gm.segment_counter),
        segment_counter |-> gm.segment_counter + 1]

add_arc_move(gm, start, end, center, line_number, direction, plane, feed_rate) ==
    LET segment == [segment_id |-> gm.segment_counter, line_number |-> line_number,
                    move_type |-> IF direction = "CW" THEN "arc_cw" ELSE "arc_ccw",
                    start_point |-> start, end_point |-> end,
                    center_point |-> center,
                    radius |-> Some(calculate_arc_properties(start, end, center, plane)),
                    plane |-> Some(plane),
                    feed_rate |-> feed_rate]
    IN [segments |-> Append(gm.segments, segment),
        line_to_segments |-> add_line_mapping(gm.line_to_segments, line_number, gm.segment_counter),
        segment_counter |-> gm.segment_counter + 1]

\* GeometryManager.get_segments_for_line
get_segments_for_line(gm, line_number) ==
    LET segment_ids == IF line_number \in DOMAIN gm.line_to_segments
                       THEN gm.line_to_segments[line_number] ELSE <<>>
    IN [k \in DOMAIN SelectSeq(segment_ids, LAMBDA sid : sid < Len(gm.segments)) |->
          gm.segments[SelectSeq(segment_ids, LAMBDA sid : sid < Len(gm.segments))[k] + 1]]

\* GCodeProcessor.highlight_geometry_for_line
highlight_geometry_for_line(gm, line_number) ==
    [k \in DOMAIN get_segments_for_line(gm, line_number) |->
       get_segments_for_line(gm, line_number)[k].segment_id]

\* GCodeProcessor.get_line_for_geometry: the line of the first segment
\* with the id, or None
get_line_for_geometry(gm, segment_id) ==
    LET found == {i \in DOMAIN gm.segments : gm.segments[i].segment_id = segment_id}
    IN IF found = {} THEN None ELSE Some(gm.segments[SetMin(found)].line_number)

\* ------------------------------------------------------- handlers/g_codes

\* The interpreter record I holds the objects of one GCodeInterpreter.  The
\* handlers work on I.handlers_machine_state (the MachineState they were
\* given at construction), I.geometry_manager and I.errors.
Ret(I, ok) == [I |-> I, ok |-> ok]

AddError(I, e) == [I EXCEPT !.errors = Append(@, e)]

\* _calculate_target_position: the target in coordinates relative to the
\* active coordinate system and the G92 offset
calculate_target_position(ms, block) ==
    LET active_cs == get_active_coordinate_system(ms)
        relative_value(a) == ms.current_position[a] - active_cs[a] - ms.g92_offset[a]
    IN IF is_distance_mode_absolute(ms)
       THEN [a \in Axes |-> IF a \in DOMAIN block.w THEN block.w[a] ELSE relative_value(a)]
       ELSE [a \in Axes |-> IF a \in DOMAIN block.w THEN relative_value(a) + block.w[a]
                            ELSE relative_value(a)]

\* block.i or 0.0
WordOr0(block, f) == IF f \in DOMAIN block.w THEN block.w[f] ELSE 0

\* An arc center that takes the two offsets of the plane in the wrong order
calculate_arc_center_swapped(ms, block, plane_axes) ==
    LET axis1 == plane_axes[1]
        axis2 == plane_axes[2]
        i_offset == IF plane_axes = <<"y", "z">> THEN WordOr0(block, "j") ELSE WordOr0(block, "i")
        j_offset == IF plane_axes \in {<<"x", "z">>, <<"y", "z">>} THEN WordOr0(block, "k")
                    ELSE WordOr0(block, "j")
    IN IF is_arc_distance_mode_absolute(ms)
       THEN [ms.current_position EXCEPT ![axis1] = j_offset, ![axis2] = i_offset]
       ELSE [ms.current_position EXCEPT ![axis1] = ms.current_position[axis1] + j_offset,
                                        ![axis2] = ms.current_position[axis2] + i_offset]

\* _calculate_arc_center: never None
calculate_arc_center(ms, block, plane_axes) ==
    LET axis1 == plane_axes[1]
        axis2 == plane_axes[2]
        i_offset == IF plane_axes = <<"y", "z">> THEN WordOr0(block, "j") ELSE WordOr0(block, "i")
        j_offset == IF plane_axes \in {<<"x", "z">>, <<"y", "z">>} THEN WordOr0(block, "k")
                    ELSE WordOr0(block, "j")
    IN IF is_arc_distance_mode_absolute(ms)
       THEN [ms.current_position EXCEPT ![axis1] = i_offset, ![axis2] = j_offset]
       ELSE [ms.current_position EXCEPT ![axis1] = ms.current_position[axis1] + i_offset,
                                        ![axis2] = ms.current_position[axis2] + j_offset]

handle_g0_rapid_positioning(I, block) ==
    LET ms == update_modal_group(I.handlers_machine_state, "motion", G(0))
        target_position == calculate_target_position(ms, block)
        abs_position == calculate_absolute_position(ms, target_position)
    IN IF ~has_axis_words(block)
       THEN Ret([I EXCEPT !.handlers_machine_state = ms], TRUE)
       ELSE Ret([I EXCEPT
                   !.geometry_manager = add_linear_move(@, to_list(ms.current_position),
                                            to_list(abs_position), block.line_number,
                                            "rapid", None),
                   !.handlers_machine_state = update_position(ms, abs_position)], TRUE)

\* The feed rate check shared by G1, G2 and G3: the diagnostic it records
\* (none when the feed rate is accepted) and the feed rate afterwards.
FeedCheck(ms, block, g_name) ==
    IF "f" \in DOMAIN block.w
    THEN IF block.w["f"] <= 0
         THEN [err |-> <<Err(block.line_number, "Feed rate must be positive", "semantic", g_name)>>,
               feed_rate |-> ms.feed_rate]
         ELSE [err |-> <<>>, feed_rate |-> block.w["f"]]
    ELSE IF ms.feed_rate <= 0
         THEN [err |-> <<Err(block.line_number, "No feed rate specified", "semantic", g_name)>>,
               feed_rate |-> ms.feed_rate]
         ELSE [err |-> <<>>, feed_rate |-> ms.feed_rate]

handle_g1_linear_interpolation(I, block) ==
    LET ms0 == update_modal_group(I.handlers_machine_state, "motion", G(1))
        chk == FeedCheck(ms0, block, "G1")
        ms == [ms0 EXCEPT !.feed_rate = chk.feed_rate]
        target_position == calculate_target_position(ms, block)
        abs_position == calculate_absolute_position(ms, target_position)
    IN IF chk.err # <<>>
       THEN Ret([I EXCEPT !.handlers_machine_state = ms0, !.errors = @ \o chk.err], FALSE)
       ELSE IF ~has_axis_words(block)
       THEN Ret([I EXCEPT !.handlers_machine_state = ms], TRUE)
       ELSE Ret([I EXCEPT
                   !.geometry_manager = add_linear_move(@, to_list(ms.current_position),
                                            to_list(abs_position), block.line_number,
                                            "feed", Some(ms.feed_rate)),
                   !.handlers_machine_state = update_position(ms, abs_position)], TRUE)

handle_arc_motion(I, block, direction) ==
    LET g_code == IF direction = "CW" THEN G(2) ELSE G(3)
        ms0 == update_modal_group(I.handlers_machine_state, "motion", g_code)
        chk == FeedCheck(ms0, block, IF direction = "CW" THEN "G2" ELSE "G3")
        ms == [ms0 EXCEPT !.feed_rate = chk.feed_rate]
        plane_axes == get_current_plane(ms)
        target_position == calculate_target_position(ms, block)
        abs_position == calculate_absolute_position(ms, target_position)
        center_position == calculate_arc_center(ms, block, plane_axes)
    IN IF chk.err # <<>>
       THEN Ret([I EXCEPT !.handlers_machine_state = ms0, !.errors = @ \o chk.err], FALSE)
       ELSE IF ~has_axis_words(block)
       THEN Ret([I EXCEPT !.handlers_machine_state = ms], TRUE)
       ELSE Ret([I EXCEPT
                   !.geometry_manager = add_arc_move(@, to_list(ms.current_position),
                                            to_list(abs_position), to_list(center_position),
                                            block.line_number, direction,
                                            PlaneName(plane_axes), Some(ms.feed_rate)),
                   !.handlers_machine_state = update_position(ms, abs_position)], TRUE)

handle_g4_dwell(I, block) ==
    IF "p" \notin DOMAIN block.w \/ block.w["p"] < 0
    THEN Ret(AddError(I, Err(block.line_number, "G4 requires positive P value", "semantic", "G4")), FALSE)
    ELSE Ret(I, TRUE)

handle_g10_coordinate_system_data(I, block) ==
    Ret(AddError(I, Err(block.line_number, "G10 not yet implemented", "semantic", "G10")), FALSE)

\* G17, G18, G19, G20, G21, G90, G91: update one modal group
handle_modal(I, group, code) ==
    Ret([I EXCEPT !.handlers_machine_state = update_modal_group(@, group, code)], TRUE)

handle_g28_return_home(I, block) ==
    LET ms == I.handlers_machine_state
        abs_position == calculate_absolute_position(ms, Position)
    IN Ret([I EXCEPT
              !.geometry_manager = add_linear_move(@, to_list(ms.current_position),
                                       to_list(abs_position), block.line_number, "rapid", None),
              !.handlers_machine_state = update_position(ms, abs_position)], TRUE)

handle_g92_coordinate_system_offset(I, block) ==
    LET ms == I.handlers_machine_state
    IN IF ~has_axis_words(block)
       THEN Ret(AddError(I, Err(block.line_number, "G92 requires at least one axis word",
                                "semantic", "G92")), FALSE)
       ELSE Ret([I EXCEPT !.handlers_machine_state.g92_offset =
                    [a \in Axes |-> IF a \in DOMAIN block.w
                                    THEN ms.current_position[a] - block.w[a]
                                    ELSE ms.g92_offset[a]]], TRUE)

\* GCodeHandlers.handlers and execute_g_code (no handler of the model
\* raises, so the except branch is not taken)
execute_g_code(I, g_number, block) ==
    CASE g_number = G(0) -> handle_g0_rapid_positioning(I, block)
      [] g_number = G(1) -> handle_g1_linear_interpolation(I, block)
      [] g_number = G(2) -> handle_arc_motion(I, block, "CW")
      [] g_number = G(3) -> handle_arc_motion(I, block, "CCW")
      [] g_number = G(4) -> handle_g4_dwell(I, block)
      [] g_number = G(10) -> handle_g10_coordinate_system_data(I, block)
      [] g_number = G(17) -> handle_modal(I, "plane", G(17))
      [] g_number = G(18) -> handle_modal(I, "plane", G(18))
      [] g_number = G(19) -> handle_modal(I, "plane", G(19))
      [] g_number = G(20) -> handle_modal(I, "units", G(20))
      [] g_number = G(21) -> handle_modal(I, "units", G(21))
      [] g_number = G(28) -> handle_g28_return_home(I, block)
      [] g_number = G(90) -> handle_modal(I, "distance", G(90))
      [] g_number = G(91) -> handle_modal(I, "distance", G(91))
      [] g_number = G(92) -> handle_g92_coordinate_system_offset(I, block)
      [] OTHER -> Ret(AddError(I, Err(block.line_number, "Unsupported G-code", "semantic", "G")), FALSE)

\* ------------------------------------------------------- handlers/m_codes

\* MCodeHandlers.handlers: the M-codes that have a handler
MHandled == {0, 1, 2, 30, 60, 3, 4, 5, 6, 61, 7, 8, 9, 48, 49, 50, 51, 52, 53}

\* _update_modal_groups
update_m_modal_groups(current_modals, m_number) ==
    [g \in DOMAIN current_modals |->
        IF (g = "spindle" /\ m_number \in {3, 4, 5})
           \/ (g = "coolant" /\ m_number \in {7, 8, 9})
           \/ (g = "override" /\ m_number \in {48, 49, 50, 51, 52, 53})
        THEN m_number ELSE current_modals[g]]

\* handle_m3_spindle_clockwise and handle_m4_spindle_counterclockwise
handle_spindle_on(I, block, m_name) ==
    LET ms == IF "s" \in DOMAIN block.w
              THEN [I.handlers_machine_state EXCEPT !.spindle_speed = block.w["s"]]
              ELSE I.handlers_machine_state
        I1 == [I EXCEPT !.handlers_machine_state = ms]
    IN IF ms.spindle_speed <= 0
       THEN Ret(AddError(I1, Err(block.line_number, "Spindle speed must be set", "semantic", m_name)), FALSE)
       ELSE Ret(I1, TRUE)

handle_m6_tool_change(I, block) ==
    IF "t" \in DOMAIN block.w
    THEN Ret([I EXCEPT !.handlers_machine_state.current_tool = block.w["t"]], TRUE)
    ELSE Ret(I, TRUE)

handle_m61_set_current_tool(I, block) ==
    IF "q" \in DOMAIN block.w
    THEN Ret([I EXCEPT !.handlers_machine_state.current_tool = block.w["q"]], TRUE)
    ELSE Ret(AddError(I, Err(block.line_number, "M61 requires Q parameter", "semantic", "M61")), FALSE)

\* An _execute_custom_m_code that fails on a code with no handler
execute_custom_m_code_aborting(I, m_number, block) ==
    Ret(AddError(I, GCodeError(block.line_number, "Custom M-code not implemented",
                               "semantic", "warning", "M")), FALSE)

\* _execute_custom_m_code: a handler registered with register_custom_m_code
\* returns True ("true"), returns False ("false") or raises ("raise")
execute_custom_m_code(I, m_number, block) ==
    IF m_number \in DOMAIN I.custom_handlers
    THEN CASE I.custom_handlers[m_number] = "raise" ->
                Ret(AddError(I, Err(block.line_number, "Error in custom M-code", "runtime", "M")),
                    FALSE)
           [] I.custom_handlers[m_number] = "false" -> Ret(I, FALSE)
           [] OTHER -> Ret(I, TRUE)
    ELSE Ret(AddError(I, GCodeError(block.line_number, "Custom M-code not implemented",
                                    "semantic", "warning", "M")), TRUE)

\* An execute_m_code that goes on after an M-code it does not support
execute_m_code_continuing(I, m_number, block) ==
    IF 100 <= m_number /\ m_number <= 199
    THEN execute_custom_m_code(I, m_number, block)
    ELSE Ret(AddError(I, Err(block.line_number, "Unsupported M-code", "semantic", "M")), TRUE)

execute_m_code(I, m_number, block) ==
    IF m_number \in MHandled
    THEN LET r == CASE m_number \in {3, 4} ->
                         handle_spindle_on(I, block, IF m_number = 3 THEN "M3" ELSE "M4")
                    [] m_number = 6 -> handle_m6_tool_change(I, block)
                    [] m_number = 61 -> handle_m61_set_current_tool(I, block)
                    [] OTHER -> Ret(I, TRUE)
         IN Ret([r.I EXCEPT !.current_modals = update_m_modal_groups(@, m_number)], r.ok)
    ELSE IF 100 <= m_number /\ m_number <= 199
    THEN execute_custom_m_code(I, m_number, block)
    ELSE Ret(AddError(I, Err(block.line_number, "Unsupported M-code", "semantic", "M")), FALSE)

\* ------------------------------------------------------- handlers/o_words

\* command_map of _parse_o_word
CommandType(command_part) ==
    CASE command_part \in {"sub", "endsub"} -> "sub"
      [] command_part \in {"if", "else", "elseif", "endif"} -> "if"
      [] command_part \in {"while", "endwhile"} -> "while"
      [] command_part \in {"repeat", "endrepeat"} -> "repeat"
      [] command_part = "call" -> "call"
      [] command_part = "return" -> "return"
      [] command_part = "break" -> "break"
      [] command_part = "continue" -> "continue"
      [] OTHER -> ""

\* _parse_o_word: cmd is None when the directive is rejected.  The parts are
\* block.o_word.strip().split(); a bracketed part is a constant expression
\* and evaluates to its number.
parse_o_word(block) ==
    LET parts == block.o_word
        command_part == parts[2].s
        bracket == Len(parts) = 3 /\ parts[3].s = "["
    IN IF Len(parts) < 2
       THEN [cmd |-> None,
             errors |-> <<Err(block.line_number, "Invalid O-word format", "syntax", "O")>>]
       ELSE IF CommandType(command_part) = ""
       THEN [cmd |-> None,
             errors |-> <<Err(block.line_number, "Unknown O-word command", "syntax", command_part)>>]
       ELSE IF Len(parts) > 2 /\ command_part \in {"if", "elseif", "while"} /\ ~bracket
       THEN [cmd |-> None,
             errors |-> <<Err(block.line_number, "Expression must be in brackets", "syntax", command_part)>>]
       ELSE [cmd |-> Some([type |-> CommandType(command_part),
                           label |-> parts[1].n,
                           expression |-> IF Len(parts) > 2 /\ bracket
                                             /\ command_part \in {"if", "elseif", "while", "return"}
                                          THEN Some(parts[3].n) ELSE None,
                           arguments |-> IF command_part = "call"
                                         THEN [k \in 1..(Len(parts) - 2) |-> parts[k + 2].n]
                                         ELSE <<>>,
                           line_number |-> block.line_number]),
             errors |-> <<>>]

\* _get_command_text: blocks is indexed by o_cmd.line_number, the source
\* line number of the directive, as written.  Reading .o_word.strip() of a
\* block that has no O word raises.
get_command_text(blocks, o_cmd) ==
    IF o_cmd.line_number < Len(blocks)
    THEN LET parts == blocks[o_cmd.line_number + 1].o_word
         IN IF parts = <<>> THEN [raised |-> TRUE, text |-> ""]
            ELSE IF Len(parts) >= 2 THEN [raised |-> FALSE, text |-> parts[2].s]
            ELSE [raised |-> FALSE, text |-> ""]
    ELSE [raised |-> FALSE, text |-> ""]

\* One iteration of the loop of _validate_program_structure.  v holds the
\* stack, the subroutine table, the diagnostics and the outcome so far
\* ("" while the loop runs, "false" after a return False, "raise" after an
\* exception).  For a directive of type sub the first test,
\* endswith('sub'), is also true of "endsub".
ValidateStep(blocks, v, line_num, o_cmd) ==
    LET t == get_command_text(blocks, o_cmd)
        cmd_text == t.text
        opener == IF o_cmd.type = "sub" THEN cmd_text \in {"sub", "endsub"}
                  ELSE cmd_text = o_cmd.type
        closer == o_cmd.type # "sub" /\ cmd_text = IF o_cmd.type = "if" THEN "endif"
                                                   ELSE IF o_cmd.type = "while" THEN "endwhile"
                                                   ELSE "endrepeat"
        top == v.stack[Len(v.stack)]
    IN IF o_cmd.type \notin {"sub", "if", "while", "repeat"} THEN v
       ELSE IF t.raised THEN [v EXCEPT !.result = "raise"]
       ELSE IF opener
       THEN [v EXCEPT !.stack = Append(@, [kind |-> o_cmd.type, label |-> o_cmd.label,
                                           line_num |-> line_num])]
       ELSE IF closer
       THEN IF v.stack = <<>> \/ top.kind # o_cmd.type \/ top.label # o_cmd.label
            THEN [v EXCEPT !.result = "false",
                           !.errors = Append(@, Err(o_cmd.line_number, "Mismatched end",
                                                    "syntax", o_cmd.type))]
            ELSE [v EXCEPT !.stack = SubSeq(@, 1, Len(@) - 1)]
       ELSE v

RECURSIVE ValidateLoop(_, _, _, _)
ValidateLoop(blocks, o_word_map, keys, v) ==
    IF keys = <<>> \/ v.result # "" THEN v
    ELSE ValidateLoop(blocks, o_word_map, Tail(keys),
                      ValidateStep(blocks, v, Head(keys), o_word_map[Head(keys)]))

\* _validate_program_structure
validate_program_structure(blocks, o_word_map) ==
    LET v == ValidateLoop(blocks, o_word_map, SortedSeq(DOMAIN o_word_map),
                          [stack |-> <<>>, subroutines |-> <<>>, errors |-> <<>>, result |-> ""])
    IN IF v.result # "" THEN v
       ELSE IF v.stack # <<>>
       THEN [v EXCEPT !.result = "false",
                      !.errors = Append(@, Err(v.stack[Len(v.stack)].line_num,
                                               "Unclosed structure", "syntax",
                                               v.stack[Len(v.stack)].kind))]
       ELSE [v EXCEPT !.result = "true"]

\* preprocess_program: o_word_map is keyed by the index of the block in the
\* block list (from 0).  OWordProcessor.blocks is the list object the parser
\* returned, the one GCodeInterpreter.blocks names: I.blocks.
preprocess_program(I) ==
    LET blocks == I.blocks
        parsed(i) == parse_o_word(blocks[i + 1])
        owi == {i \in 0..(Len(blocks) - 1) : blocks[i + 1].o_word # <<>>}
        o_word_map == [i \in {j \in owi : parsed(j).cmd # None} |-> parsed(i).cmd[1]]
        perrs == Concat([k \in 1..Len(blocks) |->
                           IF (k - 1) \in owi THEN parsed(k - 1).errors ELSE <<>>])
        v == validate_program_structure(blocks, o_word_map)
    IN [I |-> [I EXCEPT !.o_word_map = o_word_map,
                        !.subroutines = v.subroutines,
                        !.errors = @ \o perrs \o v.errors],
        result |-> v.result]

\* The result of one O-word handler: the interpreter and the next line
\* (None: continue normally)
Jump(I, next) == [I |-> I, next |-> next]

RuntimeError(I, o_cmd, message) ==
    AddError(I, Err(o_cmd.line_number, message, "runtime", o_cmd.type))

\* VariableManager.set_numbered_parameter for each argument of a call
bind_arguments(numbered_parameters, arguments) ==
    LET args == {i \in DOMAIN arguments : 1 <= i /\ i <= 5399}
    IN [n \in DOMAIN numbered_parameters \cup args |->
          IF n \in args THEN arguments[n] ELSE numbered_parameters[n]]

\* A call that pushes its frame before it looks the label up
execute_call_pushing(I, o_cmd) ==
    Jump([RuntimeError(I, o_cmd, "Undefined subroutine")
            EXCEPT !.call_stack = Append(@, [subroutine_name |-> o_cmd.label,
                                             return_line |-> I.current_line + 1,
                                             arguments |-> o_cmd.arguments])],
         None)

execute_call(I, o_cmd) ==
    IF o_cmd.label \notin DOMAIN I.subroutines
    THEN Jump(RuntimeError(I, o_cmd, "Undefined subroutine"), None)
    ELSE LET frame == [subroutine_name |-> o_cmd.label,
                       return_line |-> I.current_line + 1,
                       arguments |-> o_cmd.arguments]
         IN Jump([I EXCEPT !.numbered_parameters = bind_arguments(@, o_cmd.arguments),
                           !.call_stack = Append(@, frame)],
                 Some(I.subroutines[o_cmd.label].start_line + 1))

\* A return that unwinds the whole call stack
execute_return_unwinding(I, o_cmd) ==
    IF I.call_stack = <<>>
    THEN Jump(RuntimeError(I, o_cmd, "Return outside of subroutine"), None)
    ELSE Jump([I EXCEPT !.return_value = o_cmd.expression, !.call_stack = <<>>],
              Some(I.call_stack[Len(I.call_stack)].return_line))

execute_return(I, o_cmd) ==
    IF I.call_stack = <<>>
    THEN Jump(RuntimeError(I, o_cmd, "Return outside of subroutine"), None)
    ELSE Jump([I EXCEPT !.return_value = o_cmd.expression,
                        !.call_stack = SubSeq(@, 1, Len(@) - 1)],
              Some(I.call_stack[Len(I.call_stack)].return_line))

\* The stubs _find_matching_else_or_endif, _find_matching_endwhile and
\* _find_matching_endrepeat
find_matching(start_line) == start_line + 1

\* An exception inside a handler is caught by execute_o_word
Caught(I, o_cmd) == Jump(RuntimeError(I, o_cmd, "Error executing O-word"), None)

execute_conditional(I, o_cmd) ==
    LET t == get_command_text(I.blocks, o_cmd)
    IN IF t.raised THEN Caught(I, o_cmd)
       ELSE IF t.text \in {"if", "elseif"} /\ o_cmd.expression # None
               /\ o_cmd.expression[1] = 0
       THEN Jump(I, Some(find_matching(I.current_line)))
       ELSE Jump(I, None)

execute_while_loop(I, o_cmd) ==
    LET t == get_command_text(I.blocks, o_cmd)
        top == I.loop_stack[Len(I.loop_stack)]
    IN IF t.raised THEN Caught(I, o_cmd)
       ELSE IF t.text = "while" /\ o_cmd.expression # None
       THEN IF o_cmd.expression[1] = 0
            THEN Jump(I, Some(find_matching(I.current_line)))
            ELSE Jump([I EXCEPT !.loop_stack = Append(@,
                          [type |-> "while", label |-> o_cmd.label,
                           start_line |-> I.current_line,
                           end_line |-> find_matching(I.current_line) - 1,
                           repeat_count |-> 0, current_iteration |-> 0])], None)
       ELSE IF t.text = "endwhile" /\ I.loop_stack # <<>> /\ top.label = o_cmd.label
       THEN Jump([I EXCEPT !.loop_stack = SubSeq(@, 1, Len(@) - 1)], Some(top.start_line))
       ELSE Jump(I, None)

execute_repeat_loop(I, o_cmd) ==
    LET t == get_command_text(I.blocks, o_cmd)
        n == Len(I.loop_stack)
        top == I.loop_stack[n]
    IN IF t.raised THEN Caught(I, o_cmd)
       ELSE IF t.text = "repeat" /\ o_cmd.expression # None
       THEN IF o_cmd.expression[1] <= 0
            THEN Jump(I, Some(find_matching(I.current_line)))
            ELSE Jump([I EXCEPT !.loop_stack = Append(@,
                          [type |-> "repeat", label |-> o_cmd.label,
                           start_line |-> I.current_line,
                           end_line |-> find_matching(I.current_line) - 1,
                           repeat_count |-> o_cmd.expression[1],
                           current_iteration |-> 0])], None)
       ELSE IF t.text = "endrepeat" /\ I.loop_stack # <<>> /\ top.label = o_cmd.label
       THEN IF top.current_iteration + 1 < top.repeat_count
            THEN Jump([I EXCEPT !.loop_stack[n].current_iteration = @ + 1],
                      Some(top.start_line + 1))
            ELSE Jump([I EXCEPT !.loop_stack = SubSeq(@, 1, n - 1)], None)
       ELSE Jump(I, None)

\* The innermost loop context with the label (0: none)
MatchingLoop(loop_stack, label) ==
    LET m == {i \in DOMAIN loop_stack : loop_stack[i].label = label}
    IN IF m = {} THEN 0 ELSE SetMax(m)

execute_break(I, o_cmd) ==
    LET i == MatchingLoop(I.loop_stack, o_cmd.label)
    IN IF i = 0 THEN Jump(RuntimeError(I, o_cmd, "Break outside of loop"), None)
       ELSE Jump([I EXCEPT !.loop_stack = SubSeq(@, 1, i - 1)],
                 Some(I.loop_stack[i].end_line + 1))

\* A continue that closes the loop contexts above the one it names
execute_continue_closing(I, o_cmd) ==
    IF MatchingLoop(I.loop_stack, o_cmd.label) = 0
    THEN Jump(RuntimeError(I, o_cmd, "Continue outside of loop"), None)
    ELSE Jump([I EXCEPT !.loop_stack = SubSeq(@, 1, MatchingLoop(I.loop_stack, o_cmd.label) - 1)],
              Some(I.loop_stack[MatchingLoop(I.loop_stack, o_cmd.label)].start_line))

execute_continue(I, o_cmd) ==
    LET i == MatchingLoop(I.loop_stack, o_cmd.label)
    IN IF i = 0 THEN Jump(RuntimeError(I, o_cmd, "Continue outside of loop"), None)
       ELSE IF I.loop_stack[i].type = "while"
       THEN Jump(I, Some(I.loop_stack[i].start_line))
       ELSE Jump(I, Some(I.loop_stack[i].end_line))

\* An execute_o_word that opens a loop context for every O-word line
execute_o_word_opening(I, line_number) ==
    Jump([I EXCEPT !.loop_stack = Append(@, [label |-> line_number])], None)

execute_o_word(I, line_number) ==
    IF line_number \notin DOMAIN I.o_word_map THEN Jump(I, None)
    ELSE LET o_cmd == I.o_word_map[line_number]
             I1 == [I EXCEPT !.current_line = line_number]
         IN CASE o_cmd.type = "call" -> execute_call(I1, o_cmd)
              [] o_cmd.type = "return" -> execute_return(I1, o_cmd)
              [] o_cmd.type = "if" -> execute_conditional(I1, o_cmd)
              [] o_cmd.type = "while" -> execute_while_loop(I1, o_cmd)
              [] o_cmd.type = "repeat" -> execute_repeat_loop(I1, o_cmd)
              [] o_cmd.type = "break" -> execute_break(I1, o_cmd)
              [] o_cmd.type = "continue" -> execute_continue(I1, o_cmd)
              [] OTHER -> Jump(I1, None)

\* ------------------------------------------------------- core/interpreter

\* GCodeInterpreter.__init__.  machine_state is the MachineState that
\* GCodeInterpreter.machine_state names; handlers_machine_state is the one
\* that g_code_handlers.machine_state and m_code_handlers.machine_state
\* name.  They are one object while aliased is TRUE, that is until
\* process_gcode or reset binds machine_state to a new MachineState().
Interpreter ==
    [machine_state |-> MachineState,
     handlers_machine_state |-> MachineState,
     aliased |-> TRUE,
     errors |-> <<>>,
     geometry_manager |-> GeometryManager,
     numbered_parameters |-> <<>>,
     current_modals |-> [spindle |-> 5, coolant |-> 9, override |-> 48],
     custom_handlers |-> <<>>,
     current_gcode_text |-> <<>>,
     blocks |-> <<>>,
     execution_line |-> 0,
     o_word_map |-> <<>>,
     subroutines |-> <<>>,
     call_stack |-> <<>>,
     loop_stack |-> <<>>,
     current_line |-> 0,
     return_value |-> None]

RECURSIVE RunCodes(_, _, _, _)
\* The loops of steps 6 and 7 of _execute_block: the codes in ascending
\* order, stopping at the first handler that returns False
RunCodes(I, codes, block, letter) ==
    IF codes = <<>> THEN Ret(I, TRUE)
    ELSE LET r == IF letter = "M" THEN execute_m_code(I, Head(codes), block)
                  ELSE execute_g_code(I, Head(codes), block)
         IN IF r.ok THEN RunCodes(r.I, Tail(codes), block, letter) ELSE r

\* Step 7 with the G-codes in descending order
RunGCodesDescending(m, block) ==
    IF ~m.ok THEN m
    ELSE RunCodes(m.I,
                  [i \in DOMAIN SortedSeq(block.g_codes) |->
                     SortedSeq(block.g_codes)[Cardinality(block.g_codes) + 1 - i]],
                  block, "G")

\* Step 7 of _execute_block, after the M-codes of step 6 gave m
RunGCodes(m, block) ==
    IF ~m.ok THEN m
    ELSE RunCodes(m.I, SortedSeq(block.g_codes), block, "G")

\* _execute_block: steps 2 to 5 write GCodeInterpreter.machine_state
execute_block(I, block) ==
    LET ms2 == IF G(93) \in block.g_codes THEN update_modal_group(I.machine_state, "feed_rate_mode", G(93))
               ELSE IF G(94) \in block.g_codes THEN update_modal_group(I.machine_state, "feed_rate_mode", G(94))
               ELSE IF G(95) \in block.g_codes THEN update_modal_group(I.machine_state, "feed_rate_mode", G(95))
               ELSE I.machine_state
        ms5 == [ms2 EXCEPT
                  !.feed_rate = IF "f" \in DOMAIN block.w THEN block.w["f"] ELSE @,
                  !.spindle_speed = IF "s" \in DOMAIN block.w THEN block.w["s"] ELSE @,
                  !.current_tool = IF "t" \in DOMAIN block.w THEN block.w["t"] ELSE @]
    IN RunGCodes(RunCodes([I EXCEPT !.machine_state = ms5], SortedSeq(block.m_codes), block, "M"),
                 block)

\* process_gcode, step 4: execution starts at line 0 when preprocessing
\* returned True; status is "exec" when execution starts, "false" when
\* process_gcode returns False before it and "raise" when preprocessing
\* raises.
StartExecution(pre) ==
    IF pre.result # "true" THEN [I |-> pre.I, status |-> pre.result]
    ELSE [I |-> [pre.I EXCEPT !.execution_line = 0], status |-> "exec"]

\* process_gcode, steps 2 and 3, from the blocks and diagnostics par of the
\* parser
ParseStep(I1, par) ==
    IF has_fatal_errors(I1.errors) THEN [I |-> I1, status |-> "false"]
    ELSE IF has_fatal_errors(I1.errors \o par.errors)
    THEN [I |-> [I1 EXCEPT !.blocks = par.blocks, !.errors = @ \o par.errors],
          status |-> "false"]
    ELSE StartExecution(preprocess_program(
             [I1 EXCEPT !.blocks = par.blocks, !.errors = @ \o par.errors]))

\* process_gcode, step 1, from the result tok of the lexer: the collector
\* and the geometry are cleared, machine_state is bound to a new
\* MachineState(), the user variables are cleared
TokenizeStep(I, gcode_text, tok) ==
    ParseStep([I EXCEPT !.current_gcode_text = gcode_text,
                        !.geometry_manager = GeometryManager,
                        !.machine_state = MachineState,
                        !.aliased = FALSE,
                        !.numbered_parameters = <<>>,
                        !.errors = tok.errors],
              Parse(tok.lines))

\* process_gcode up to the call of _execute_blocks
ProcessStart(I, gcode_text) == TokenizeStep(I, gcode_text, Tokenize(gcode_text))

\* An end of iteration that stays on a block that failed
EndOfIterationRetrying(r) ==
    IF ~r.ok THEN [I |-> r.I, status |-> "exec"]
    ELSE [I |-> [r.I EXCEPT !.execution_line = @ + 1], status |-> "exec"]

\* The end of one iteration of _execute_blocks: r is the result of
\* _execute_block on the interpreter the O-word handler left
EndOfIteration(r) ==
    IF ~r.ok /\ has_fatal_errors(r.I.errors)
    THEN [I |-> r.I, status |-> "false"]
    ELSE [I |-> [r.I EXCEPT !.execution_line = @ + 1], status |-> "exec"]

\* One iteration of _execute_blocks after the O-word check gave j: a jump,
\* or the normal execution of the block
AfterOWord(j, block) ==
    IF j.next # None
    THEN [I |-> [j.I EXCEPT !.execution_line = j.next[1]], status |-> "exec"]
    ELSE EndOfIteration(execute_block(j.I, block))

\* One iteration of the while loop of _execute_blocks
ExecuteOne(I) ==
    LET block == I.blocks[I.execution_line + 1]
    IN AfterOWord(IF block.o_word # <<>> THEN execute_o_word(I, I.execution_line)
                  ELSE Jump(I, None),
                  block)

RECURSIVE execute_blocks(_), ContinueBlocks(_)
\* _execute_blocks from the current execution_line to its return: the
\* interpreter it leaves
execute_blocks(I) ==
    IF I.execution_line >= Len(I.blocks) THEN I
    ELSE ContinueBlocks(ExecuteOne(I))

\* The loop goes on after an iteration unless that iteration returned False
ContinueBlocks(e) == IF e.status = "exec" THEN execute_blocks(e.I) ELSE e.I

\* The interpreter that process_gcode leaves when it started as p
FinishProcess(p) == IF p.status = "exec" THEN execute_blocks(p.I) ELSE p.I

\* process_gcode as one call: the interpreter it leaves
process_gcode(I, gcode_text) == FinishProcess(ProcessStart(I, gcode_text))

\* A syntax check that runs the whole pipeline on the interpreter
validate_by_processing(I, gcode_text) ==
    [I |-> process_gcode(I, gcode_text),
     valid |-> ~has_errors(process_gcode(I, gcode_text).errors)]

\* validate_syntax_only, from the result tok of a temporary lexer and the
\* result par of a temporary parser on one temporary collector: the
\* collector's list replaces the list of the main collector
CheckParsed(I, tok, par) ==
    [I |-> [I EXCEPT !.errors = tok.errors \o par.errors],
     valid |-> ~has_errors(tok.errors \o par.errors)]

CheckTokens(I, tok) == CheckParsed(I, tok, Parse(tok.lines))

\* GCodeInterpreter.validate_syntax_only
validate_syntax_only(I, gcode_text) == CheckTokens(I, Tokenize(gcode_text))

\* ----------------------------------------------------------------- inputs

\* Longest program, in lines, of Spec, of SpecRerun and of SpecOWord
MaxLines == 2
MaxRerunLines == 1
MaxOLines == 4
\* process_gcode calls on one interpreter in SpecRerun
MaxRuns == 2

Line(words) == [words |-> words, kw |-> "", expr |-> <<>>]

\* "O<label> <kw> [e1] [e2] ..."
OLine(label, kw, expr) == [words |-> <<W("O", label)>>, kw |-> kw, expr |-> expr]

LineC2 == Line(<<W("G", G(21)), W("G", G(90)), W("G", G(1)), W("X", 10), W("Y", 0), W("F", 100)>>)
LineC3 == Line(<<W("G", G(90)), W("G", G(91)), W("X", 1)>>)
LineC9 == Line(<<W("G", G(2)), W("X", 10), W("Y", 0), W("I", 5), W("J", 0)>>)
LineC9F == Line(<<W("G", G(2)), W("X", 10), W("Y", 0), W("I", 5), W("J", 0), W("F", 100)>>)

\* The lines of the programs of Spec
Lines ==
    {LineC2, LineC3, LineC9, LineC9F,
     Line(<<W("G", G(0)), W("X", 10)>>),
     Line(<<W("G", G(91))>>),
     Line(<<W("G", G(1)), W("Y", 4)>>),
     Line(<<W("G", G(1)), W("X", 3), W("F", 0)>>),
     Line(<<W("G", G(3)), W("X", 10), W("F", 100)>>),
     Line(<<W("G", G(2)), W("Y", 8), W("R", 5), W("F", 100)>>),
     Line(<<W("G", G(92)), W("X", 5)>>),
     Line(<<W("G", G(17)), W("G", G(18)), W("G", G(0)), W("G", G(1)), W("Z", 2)>>),
     Line(<<W("G", G(0)), W("A", 7)>>)}

\* The lines of the programs of SpecRerun
RerunLines ==
    {Line(<<W("G", G(0)), W("X", 10)>>),
     Line(<<W("G", G(91))>>),
     Line(<<W("G", G(1)), W("Y", 4), W("F", 100)>>),
     Line(<<W("G", G(1)), W("X", 3)>>),
     Line(<<W("G", G(92)), W("X", 5)>>),
     Line(<<W("G", G(2)), W("X", 4), W("I", 2)>>),
     Line(<<W("G", G(90)), W("G", G(91)), W("X", 1)>>)}

\* The lines of the programs of SpecOWord
OWordLines ==
    {OLine(100, "while", <<1>>), OLine(100, "break", <<>>), OLine(100, "endwhile", <<>>),
     OLine(200, "sub", <<>>), OLine(200, "endsub", <<>>), OLine(200, "call", <<5>>),
     Line(<<W("G", G(0)), W("X", 10)>>)}

Programs(lines, n) == UNION {[1..k -> lines] : k \in 1..n}

\* Coordinate-system offsets a caller may set through
\* MachineState.set_coordinate_system_offset
OffsetAxes == {"x", "y"}
OffsetValues == {0, 3}

\* ---------------------------------------------------------------- actions

Init ==
    /\ interp = Interpreter
    /\ pc = "idle"
    /\ runs = 0
    /\ result = ""

\* GCodeInterpreter.process_gcode, from its entry to the first iteration of
\* _execute_blocks (or to its return, when it does not get there)
ProcessGcode(gcode_text) ==
    /\ pc = "idle"
    /\ \E p \in {ProcessStart(interp, gcode_text)} :
          /\ interp' = p.I
          /\ pc' = IF p.status = "exec" THEN "exec" ELSE "idle"
          /\ result' = IF p.status = "exec" THEN "" ELSE p.status
    /\ runs' = runs + 1

\* One iteration of the loop of _execute_blocks
ExecuteStep ==
    /\ pc = "exec"
    /\ interp.execution_line < Len(interp.blocks)
    /\ \E e \in {ExecuteOne(interp)} :
          /\ interp' = e.I
          /\ pc' = IF e.status = "exec" THEN "exec" ELSE "idle"
          /\ result' = IF e.status = "exec" THEN "" ELSE e.status
    /\ UNCHANGED runs

\* The loop of _execute_blocks ends and process_gcode returns
Finish ==
    /\ pc = "exec"
    /\ interp.execution_line >= Len(interp.blocks)
    /\ pc' = "idle"
    /\ result' = IF has_fatal_errors(interp.errors) THEN "false" ELSE "true"
    /\ UNCHANGED <<interp, runs>>

\* A caller sets an offset of G54 on the MachineState the interpreter
\* exposes; the handlers see it while they share that object
SetCoordinateSystemOffset ==
    /\ pc = "idle"
    /\ \E axis \in OffsetAxes, value \in OffsetValues :
          interp' = [interp EXCEPT
                       !.machine_state = set_coordinate_system_offset(@, G(54), axis, value),
                       !.handlers_machine_state =
                           IF interp.aliased
                           THEN set_coordinate_system_offset(@, G(54), axis, value)
                           ELSE @]
    /\ UNCHANGED <<pc, runs, result>>

\* One process_gcode call on a new interpreter
Process == \E t \in Programs(Lines, MaxLines) : runs = 0 /\ ProcessGcode(t)

Next == Process \/ ExecuteStep \/ Finish \/ SetCoordinateSystemOffset

Spec == Init /\ [][Next]_vars

\* WF_vars(ExecuteStep) with its ENABLED written out: an iteration of the
\* loop can be taken exactly while the counter is below the number of blocks
ExecuteStepFair ==
    \/ []<>(~(pc = "exec" /\ interp.execution_line < Len(interp.blocks)))
    \/ []<><<ExecuteStep>>_vars

\* The loop of _execute_blocks is a running call: an iteration that can be
\* taken is taken, and so is the return
SpecFair == Spec /\ ExecuteStepFair /\ WF_vars(Finish)

\* Up to MaxRuns process_gcode calls on one interpreter
ProcessAgain == \E t \in Programs(RerunLines, MaxRerunLines) : runs < MaxRuns /\ ProcessGcode(t)

NextRerun == ProcessAgain \/ ExecuteStep \/ Finish

SpecRerun == Init /\ [][NextRerun]_vars

\* One process_gcode call on a program with O-word lines
ProcessOWord == \E t \in Programs(OWordLines, MaxOLines) : runs = 0 /\ ProcessGcode(t)

NextOWord == ProcessOWord \/ ExecuteStep \/ Finish

SpecOWord == Init /\ [][NextOWord]_vars

\* GCodeInterpreter.validate_syntax_only (GCodeProcessor.validate_syntax)
\* between two process_gcode calls
ValidateSyntaxOnly ==
    /\ pc = "idle"
    /\ \E t \in Programs(RerunLines, MaxRerunLines) :
          \E v \in {validate_syntax_only(interp, t)} :
             /\ interp' = v.I
             /\ result' = IF v.valid THEN "valid" ELSE "invalid"
    /\ UNCHANGED <<pc, runs>>

NextValidate == ProcessAgain \/ ExecuteStep \/ Finish \/ ValidateSyntaxOnly

\* process_gcode calls and syntax checks on one interpreter
SpecValidate == Init /\ [][NextValidate]_vars

\* ------------------------------------------------------------ word order

\* The lines that hold the words ws in one of their orders
Reorderings(ws) == {[i \in DOMAIN ws |-> ws[p[i]]] : p \in Permutations(DOMAIN ws)}

\* The words of the lines of SpecOrder: a feed move with a distance mode,
\* a rapid move with the X word written twice, a rapid move with a spindle
\* command
OrderWords ==
    {<<W("G", G(1)), W("G", G(91)), W("X", 3), W("F", 100)>>,
     <<W("G", G(0)), W("X", 1), W("X", 5)>>,
     <<W("M", 3), W("S", 100), W("G", G(0)), W("Y", 2)>>}

OrderLines == UNION {{Line(q) : q \in Reorderings(ws)} : ws \in OrderWords}

\* One process_gcode call on a new interpreter, on a one-line program
ProcessOrder == \E l \in OrderLines : runs = 0 /\ ProcessGcode(<<l>>)

NextOrder == ProcessOrder \/ ExecuteStep \/ Finish

SpecOrder == Init /\ [][NextOrder]_vars

\* -------------------------------------------------------------- dispatch

\* What a registered custom M-code handler may do when it is called
HandlerBehaviours == {"true", "false", "raise"}

\* The custom M-code a caller registers a handler for
CustomMCode == 150

\* MCodeHandlers.register_custom_m_code, before the run
RegisterCustomMCode ==
    /\ pc = "idle"
    /\ runs = 0
    /\ \E b \in HandlerBehaviours :
          interp' = [interp EXCEPT !.custom_handlers = [m \in {CustomMCode} |-> b]]
    /\ UNCHANGED <<pc, runs, result>>

\* The lines of the programs of SpecDispatch: an M-code and a G-code that
\* have no handler, a custom M-code, each before a code that would leave a
\* trace, and two lines that succeed
DispatchLines ==
    {Line(<<W("M", 200), W("G", G(0)), W("X", 1)>>),
     Line(<<W("G", G(5)), W("G", G(91))>>),
     Line(<<W("M", CustomMCode), W("G", G(0)), W("X", 1)>>),
     Line(<<W("M", 3), W("M", 200), W("S", 100)>>),
     Line(<<W("G", G(0)), W("X", 10)>>)}

MaxDispatchLines == 2

\* One process_gcode call on an interpreter
ProcessDispatch == \E t \in Programs(DispatchLines, MaxDispatchLines) : runs = 0 /\ ProcessGcode(t)

NextDispatch == RegisterCustomMCode \/ ProcessDispatch \/ ExecuteStep \/ Finish

SpecDispatch == Init /\ [][NextDispatch]_vars

\* ------------------------------------------------- coordinate round trip

\* _calculate_target_position, an axis the block does not name:
\* relative_value = current_abs - cs_offset - g92_offset, in floats
relative_value(current_abs, cs_offset, g92_offset) ==
    FSub(FSub(current_abs, cs_offset), g92_offset)

\* An absolute position that leaves out the G92 offset
absolute_value_without_g92(relative, cs_offset, g92_offset) == FAdd(relative, cs_offset)

\* calculate_absolute_position, one axis:
\* absolute_value = relative_value + cs_offset + g92_offset, in floats
absolute_value(relative, cs_offset, g92_offset) ==
    FAdd(FAdd(relative, cs_offset), g92_offset)

\* float("2.6") = 0x1.4cccccccccccdp+1, float("7.6") = 0x1.e666666666666p+2
\* (also 2.6 - (-5.0), the G92 offset that G92 Y-5.0 sets at Y2.6),
\* float("0.1") = 0x1.999999999999ap-4 and 2.0**54
Float2p6 == Float(FALSE, 43620761, 80530637, -51)
Float7p6 == Float(FALSE, 63753420, 107374182, -50)
Float0p1 == Float(FALSE, 53687091, 26843546, -56)
Float2to54 == Float(FALSE, 33554432, 0, 2)

\* The positions and offsets of one axis in SpecRoundTrip
FloatValues ==
    {FloatOfInt(0), FloatOfInt(1), FloatOfInt(-5), Float2p6, Float7p6, Float0p1, Float2to54}

\* One axis of a MachineState: its position and the two offsets
InitRoundTrip ==
    /\ interp \in [current_abs : FloatValues, cs_offset : FloatValues,
                    g92_offset : FloatValues, relative : {None}, absolute : {None}]
    /\ pc = "absolute"
    /\ runs = 0
    /\ result = ""

\* The position is converted to the coordinate relative to the offsets
ToRelative ==
    /\ pc = "absolute"
    /\ interp' = [interp EXCEPT !.relative =
                     Some(relative_value(interp.current_abs, interp.cs_offset, interp.g92_offset))]
    /\ pc' = "relative"
    /\ UNCHANGED <<runs, result>>

\* The relative coordinate is converted back
ToAbsolute ==
    /\ pc = "relative"
    /\ interp' = [interp EXCEPT !.absolute =
                     Some(absolute_value(interp.relative[1], interp.cs_offset, interp.g92_offset))]
    /\ pc' = "back"
    /\ UNCHANGED <<runs, result>>

NextRoundTrip == ToRelative \/ ToAbsolute

SpecRoundTrip == InitRoundTrip /\ [][NextRoundTrip]_vars

\* -------------------------------------------------------- utils/variables

\* The keys of VariableManager.system_parameters: the modal group values,
\* the coordinate-system offsets, the tool and modal information, the
\* current position
ModalParameters == {5070, 5080, 5090, 5100, 5110, 5120, 5130, 5140, 5150, 5160}

OffsetParameters == {5200 + (i - 1) * 20 + axis_offset : i \in 1..9, axis_offset \in 0..8}

ToolParameters == 5400..5411

PositionParameters == 5420..5428

ModalDefaults ==
    [n \in ModalParameters |->
       CASE n = 5070 -> 1 [] n = 5080 -> 17 [] n = 5090 -> 90 [] n = 5100 -> 94
         [] n = 5110 -> 21 [] n = 5120 -> 40 [] n = 5130 -> 49 [] n = 5140 -> 54
         [] n = 5150 -> 64 [] n = 5160 -> 98]

\* _initialize_system_parameters
system_parameters ==
    [n \in ModalParameters \cup OffsetParameters \cup ToolParameters \cup PositionParameters |->
       IF n \in ModalParameters THEN ModalDefaults[n] ELSE 0]

\* VariableManager.__init__
VariableManager ==
    [numbered_parameters |-> <<>>,
     system_parameters |-> system_parameters]

\* The largest user parameter number
LastUserParameter == 5399

\* VariableManager.set_numbered_parameter
set_numbered_parameter(vm, number, value) ==
    IF 1 <= number /\ number <= LastUserParameter
    THEN [vm |-> [vm EXCEPT !.numbered_parameters =
                      [n \in DOMAIN @ \cup {number} |-> IF n = number THEN value ELSE @[n]]],
          ok |-> TRUE]
    ELSE [vm |-> vm, ok |-> FALSE]

\* VariableManager.get_numbered_parameter
get_numbered_parameter(vm, number) ==
    IF number \in DOMAIN vm.system_parameters THEN vm.system_parameters[number]
    ELSE IF number \in DOMAIN vm.numbered_parameters THEN vm.numbered_parameters[number]
    ELSE 0

\* The parameter numbers and values of the calls of SpecVariables
ParameterNumbers == {-1, 0, 1, 2, 5070, 5200, 5369, LastUserParameter, 5400, 5420, 6000}

ParameterValues == {0, 7, 12}

MaxSets == 2

InitVariables ==
    /\ interp = VariableManager
    /\ pc = [number |-> 0, value |-> 0]
    /\ runs = 0
    /\ result = ""

\* One call set_numbered_parameter(number, value); pc keeps its arguments
SetNumberedParameter ==
    /\ runs < MaxSets
    /\ \E number \in ParameterNumbers, value \in ParameterValues :
          \E r \in {set_numbered_parameter(interp, number, value)} :
             /\ interp' = r.vm
             /\ result' = IF r.ok THEN "true" ELSE "false"
             /\ pc' = [number |-> number, value |-> value]
    /\ runs' = runs + 1

NextVariables == SetNumberedParameter

SpecVariables == InitVariables /\ [][NextVariables]_vars

\* ------------------------------------------------------- named parameters

\* A parameter name is the sequence of its characters
StartsWith(name, prefix) ==
    Len(name) >= Len(prefix) /\ SubSeq(name, 1, Len(prefix)) = prefix

\* _initialize_predefined_named
predefined_named ==
    [name \in {<<"_", c>> : c \in {"x", "y", "z", "a", "b", "c", "u", "v", "w"}}
              \cup {<<"_", "m", "o", "t", "i", "o", "n">>, <<"_", "p", "l", "a", "n", "e">>,
                    <<"_", "d", "i", "s", "t", "a", "n", "c", "e">>,
                    <<"_", "f", "e", "e", "d">>, <<"_", "s", "p", "e", "e", "d">>,
                    <<"_", "t", "o", "o", "l">>} |->
       CASE name = <<"_", "m", "o", "t", "i", "o", "n">> -> 1
         [] name = <<"_", "p", "l", "a", "n", "e">> -> 17
         [] name = <<"_", "d", "i", "s", "t", "a", "n", "c", "e">> -> 90
         [] OTHER -> 0]

\* VariableManager.__init__, the named parameters
NamedParameters ==
    [local_parameters |-> <<>>, global_parameters |-> <<>>,
     predefined_named |-> predefined_named]

\* dict[name] = value
Store(dict, name, value) ==
    [n \in DOMAIN dict \cup {name} |-> IF n = name THEN value ELSE dict[n]]

\* dict.get(name, 0.0)
Lookup(dict, name) == IF name \in DOMAIN dict THEN dict[name] ELSE 0

\* VariableManager.set_named_parameter
set_named_parameter(vm, name, value) ==
    IF StartsWith(name, <<"_">>) /\ ~StartsWith(name, <<"_", "_">>)
    THEN IF name \in DOMAIN vm.predefined_named
         THEN [vm |-> vm, ok |-> FALSE]
         ELSE [vm |-> [vm EXCEPT !.global_parameters = Store(@, name, value)], ok |-> TRUE]
    ELSE [vm |-> [vm EXCEPT !.local_parameters = Store(@, name, value)], ok |-> TRUE]

\* VariableManager.get_named_parameter
get_named_parameter(vm, name) ==
    IF name \in DOMAIN vm.predefined_named THEN vm.predefined_named[name]
    ELSE IF StartsWith(name, <<"_">>) THEN Lookup(vm.global_parameters, name)
    ELSE Lookup(vm.local_parameters, name)

\* The names and values of the calls of SpecNamed: a, _g, __a, _, the
\* empty name, and the predefined _x and _plane
ParameterNames ==
    {<<"a">>, <<"_", "g">>, <<"_", "_", "a">>, <<"_">>, <<>>,
     <<"_", "x">>, <<"_", "p", "l", "a", "n", "e">>}

NamedValues == {0, 7, 12}

MaxNamedSets == 2

InitNamed ==
    /\ interp = NamedParameters
    /\ pc = [at |-> "idle"]
    /\ runs = 0
    /\ result = ""

\* One call set_named_parameter(name, value); pc keeps its arguments and
\* what get_named_parameter(name) gave before the call
SetNamedParameter ==
    /\ pc.at # "set"
    /\ runs < MaxNamedSets
    /\ \E name \in ParameterNames, value \in NamedValues :
          \E r \in {set_named_parameter(interp, name, value)} :
             /\ interp' = r.vm
             /\ result' = IF r.ok THEN "true" ELSE "false"
             /\ pc' = [at |-> "set", name |-> name, value |-> value,
                       before |-> get_named_parameter(interp, name)]
    /\ runs' = runs + 1

\* The following get_named_parameter(name); pc keeps what it returns
GetNamedParameter ==
    /\ pc.at = "set"
    /\ pc' = [at |-> "got", name |-> pc.name, value |-> pc.value, before |-> pc.before,
              returned |-> get_named_parameter(interp, pc.name)]
    /\ UNCHANGED <<interp, runs, result>>

NextNamed == SetNamedParameter \/ GetNamedParameter

SpecNamed == InitNamed /\ [][NextNamed]_vars

\* ------------------------------------------------- group 0 with motion

\* The lines of the programs of SpecGroup0: a motion code with G53, with
\* another group 0 code, with both, with and without axis words
Group0Lines ==
    {Line(<<W("G", G(53)), W("G", G(0)), W("X", 1)>>),
     Line(<<W("G", G(4)), W("G", G(0)), W("X", 1), W("P", 1)>>),
     Line(<<W("G", G(92)), W("G", G(1)), W("X", 1), W("F", 100)>>),
     Line(<<W("G", G(53)), W("G", G(92)), W("G", G(0)), W("X", 5)>>),
     Line(<<W("G", G(53)), W("G", G(0))>>),
     Line(<<W("G", G(4)), W("G", G(0)), W("P", 1)>>),
     Line(<<W("G", G(0)), W("X", 10)>>)}

MaxGroup0Lines == 2

\* One process_gcode call on a new interpreter
ProcessGroup0 == \E t \in Programs(Group0Lines, MaxGroup0Lines) : runs = 0 /\ ProcessGcode(t)

NextGroup0 == ProcessGroup0 \/ ExecuteStep \/ Finish

SpecGroup0 == Init /\ [][NextGroup0]_vars

\* ------------------------------------------------- modes with motion

\* The lines of the programs of SpecModes: moves alone and moves with a
\* distance mode or a plane on the same line
ModeLines ==
    {Line(<<W("G", G(0)), W("X", 10)>>),
     Line(<<W("G", G(91)), W("G", G(1)), W("X", 3), W("F", 100)>>),
     Line(<<W("G", G(0)), W("X", 1)>>),
     Line(<<W("G", G(90)), W("G", G(0)), W("X", 4)>>),
     Line(<<W("G", G(18)), W("G", G(2)), W("X", 4), W("I", 2), W("F", 100)>>),
     Line(<<W("G", G(91)), W("G", G(1)), W("X", 3)>>)}

MaxModeLines == 3

\* One process_gcode call on a new interpreter
ProcessModes == \E t \in Programs(ModeLines, MaxModeLines) : runs = 0 /\ ProcessGcode(t)

NextModes == ProcessModes \/ ExecuteStep \/ Finish

SpecModes == Init /\ [][NextModes]_vars

\* ------------------------------------------- interpreters, utils/geometry

\* utils/geometry.calculate_arc_data_r on integer coordinates.  The center
\* is kept exactly: x2 and y2 are twice the coordinates of the chord's
\* midpoint, offset_sq4 is four times the square of the distance from the
\* midpoint to the center and side is the side of the chord it lies on
\* (center_angle = angle - pi/2: "minus", angle + pi/2: "plus"; "none" when
\* the center is the midpoint itself).  A chord longer than the diameter
\* gives the midpoint.
calculate_arc_data_r(move, x1, y1, x2, y2, radius) ==
    LET chord_sq == (x2 - x1) * (x2 - x1) + (y2 - y1) * (y2 - y1)
        turns == IF move = 30 THEN 1 ELSE -1
    IN IF chord_sq > 4 * radius * radius
       THEN [x2 |-> x1 + x2, y2 |-> y1 + y2, offset_sq4 |-> 0, side |-> "none", turns |-> turns]
       ELSE [x2 |-> x1 + x2, y2 |-> y1 + y2,
             offset_sq4 |-> 4 * radius * radius - chord_sq,
             side |-> IF 4 * radius * radius = chord_sq THEN "none"
                      ELSE IF (move = 20 /\ radius > 0) \/ (move = 30 /\ radius < 0)
                      THEN "minus" ELSE "plus",
             turns |-> turns]

\* utils/geometry.calculate_arc_data_ijk in the XY plane
calculate_arc_data_ijk(move, x1, y1, i, j) ==
    [x2 |-> 2 * (x1 + i), y2 |-> 2 * (y1 + j), offset_sq4 |-> 0, side |-> "none",
     turns |-> IF move = 30 THEN 1 ELSE -1]

\* _get_target_position in absolute distance mode
get_target_position(position, block) ==
    [axis \in {"x", "y"} |-> IF axis \in DOMAIN block.params THEN block.params[axis]
                              ELSE position[axis]]

\* canonical.ArcFeed
ArcFeed(line_number, start_pos, end_pos, center, direction) ==
    [source_line_number |-> line_number, start_pos |-> start_pos, end_pos |-> end_pos,
     center |-> [x2 |-> center.x2, y2 |-> center.y2, offset_sq4 |-> center.offset_sq4,
                 side |-> center.side],
     direction |-> direction]

\* S with the arc command appended and the position moved to the target
EmitArc(S, block, center, direction) ==
    [S EXCEPT !.canon_commands =
                  Append(@, ArcFeed(block.line_number, S.position,
                                    get_target_position(S.position, block), center, direction)),
              !.position = get_target_position(S.position, block)]

\* LinuxCNCInterpreter._handle_arc_feed
linuxcnc_handle_arc_feed(S, block) ==
    IF "r" \in DOMAIN block.params
    THEN EmitArc(S, block,
                 calculate_arc_data_r(block.g, S.position["x"], S.position["y"],
                                      get_target_position(S.position, block)["x"],
                                      get_target_position(S.position, block)["y"],
                                      block.params["r"]),
                 IF block.g = 30 THEN 1 ELSE -1)
    ELSE EmitArc(S, block, calculate_arc_data_ijk(block.g, S.position["x"], S.position["y"], 0, 0),
                 IF block.g = 30 THEN 1 ELSE -1)

\* r_number <= hypot(dx, dy) / 2
RadiusTooSmall(S, block) ==
    LET t == get_target_position(S.position, block)
        chord_sq == (t["x"] - S.position["x"]) * (t["x"] - S.position["x"])
                      + (t["y"] - S.position["y"]) * (t["y"] - S.position["y"])
    IN block.params["r"] < 0 \/ 4 * block.params["r"] * block.params["r"] <= chord_sq

\* NUMInterpreter._handle_arc_feed for a block without I and J words; the
\* direction it hands to calculate_arc_data_r is -1 (G2) or 1 (G3)
num_handle_arc_feed(S, block) ==
    LET direction == IF block.g = 30 THEN 1 ELSE -1
    IN IF DOMAIN block.params \cap {"x", "y"} = {}
       THEN [S EXCEPT !.errors = Append(@, [line_number |-> block.line_number,
                                            message |-> "G02/G03 requires an end point"])]
       ELSE IF "r" \in DOMAIN block.params
       THEN IF RadiusTooSmall(S, block)
            THEN [S EXCEPT !.errors = Append(@, [line_number |-> block.line_number,
                                                 message |-> "Arc Radius (R) too small"])]
            ELSE EmitArc(S, block,
                         calculate_arc_data_r(direction, S.position["x"], S.position["y"],
                                              get_target_position(S.position, block)["x"],
                                              get_target_position(S.position, block)["y"],
                                              block.params["r"]),
                         direction)
       ELSE [S EXCEPT !.errors = Append(@, [line_number |-> block.line_number,
                                            message |-> "G02/G03 requires either R or I/J words"])]

\* The arc blocks of SpecArc: G2 or G3 with some of the words X, Y and R
ArcCoordinates == {0, 4, 10}

ArcRadii == {-5, 2, 5}

ArcParams ==
    UNION {[ws -> ArcCoordinates \cup ArcRadii] : ws \in SUBSET {"x", "y", "r"}}

ArcBlocks ==
    {[line_number |-> 1, g |-> g, params |-> ps] :
       g \in {20, 30},
       ps \in {q \in ArcParams :
                 /\ \A a \in DOMAIN q \cap {"x", "y"} : q[a] \in ArcCoordinates
                 /\ "r" \in DOMAIN q => q["r"] \in ArcRadii}}

MaxArcs == 2

\* BaseInterpreter.__init__ of one of the two dialects
InitArc ==
    /\ interp \in {[dialect |-> d, position |-> [x |-> 0, y |-> 0],
                     canon_commands |-> <<>>, errors |-> <<>>] : d \in {"linuxcnc", "num"}}
    /\ pc = [line_number |-> 0, g |-> 0, params |-> <<>>]
    /\ runs = 0
    /\ result = ""

\* One arc block goes to _handle_arc_feed; pc keeps the block
HandleArcFeed ==
    /\ runs < MaxArcs
    /\ \E block \in ArcBlocks :
          /\ interp' = IF interp.dialect = "linuxcnc" THEN linuxcnc_handle_arc_feed(interp, block)
                        ELSE num_handle_arc_feed(interp, block)
          /\ pc' = block
    /\ runs' = runs + 1
    /\ UNCHANGED result

NextArc == HandleArcFeed

SpecArc == InitArc /\ [][NextArc]_vars

\* ------------------------------------------------ O-word blocks, directly

\* A Block whose o_word holds the string "O<label> <kw>"
Directive(label, kw) ==
    [line_number |-> 0, g_codes |-> {}, m_codes |-> {},
     o_word |-> <<OPart("O", label), OPart(kw, 0)>>, w |-> <<>>, tokens |-> <<>>]

\* A Block whose o_word holds the string "O<label> <kw> [<e>]"
DirectiveOn(label, kw, e) ==
    [line_number |-> 0, g_codes |-> {}, m_codes |-> {},
     o_word |-> <<OPart("O", label), OPart(kw, 0), OPart("[", e)>>, w |-> <<>>, tokens |-> <<>>]

\* The Block of "G0 X<x>"
MoveBlock(x) ==
    [line_number |-> 0, g_codes |-> {G(0)}, m_codes |-> {}, o_word |-> <<>>,
     w |-> [f \in {"x"} |-> x], tokens |-> <<>>]

\* The blocks of the programs of SpecProcessor, by the structure they use
SubBlocks ==
    {Directive(200, "sub"), Directive(200, "endsub"), DirectiveOn(200, "call", 5),
     Directive(200, "return"), MoveBlock(5)}

WhileBlocks ==
    {DirectiveOn(100, "while", 0), DirectiveOn(100, "while", 1), Directive(100, "endwhile"),
     Directive(100, "break"), Directive(200, "break"), Directive(100, "continue"),
     MoveBlock(5)}

RepeatBlocks ==
    {DirectiveOn(100, "repeat", 2), DirectiveOn(100, "repeat", 0), Directive(100, "endrepeat"),
     Directive(100, "continue"), MoveBlock(5)}

ConditionalBlocks ==
    {DirectiveOn(100, "if", 0), DirectiveOn(100, "if", 1), Directive(100, "else"),
     Directive(100, "endif"), MoveBlock(5)}

\* Longest list of blocks, and most calls (preprocess_program and the
\* iterations of _execute_blocks) on it, in SpecProcessor
MaxBlocks == 4
MaxSteps == 8

BlockLists ==
    Programs(SubBlocks, MaxBlocks) \cup Programs(WhileBlocks, MaxBlocks)
       \cup Programs(RepeatBlocks, MaxBlocks) \cup Programs(ConditionalBlocks, MaxBlocks)

\* The blocks numbered from base: the parser numbers the lines from 1, the
\* block list is indexed from 0
Numbered(blocks, base) ==
    [i \in DOMAIN blocks |-> [blocks[i] EXCEPT !.line_number = i - 1 + base]]

\* Steps 3 and 4 of process_gcode on a block list whose O-word blocks hold
\* their directive: preprocess_program, then execution starts at line 0
PreprocessProgram ==
    /\ pc = "idle"
    /\ runs = 0
    /\ \E blocks \in BlockLists, base \in {0, 1} :
          \E p \in {StartExecution(preprocess_program(
                        [interp EXCEPT !.blocks = Numbered(blocks, base)]))} :
             /\ interp' = p.I
             /\ pc' = IF p.status = "exec" THEN "exec" ELSE "idle"
             /\ result' = IF p.status = "exec" THEN "" ELSE p.status
    /\ runs' = 1

\* One iteration of the loop of _execute_blocks, counted in runs
CountedStep ==
    /\ pc = "exec"
    /\ runs < MaxSteps
    /\ interp.execution_line < Len(interp.blocks)
    /\ \E e \in {ExecuteOne(interp)} :
          /\ interp' = e.I
          /\ pc' = IF e.status = "exec" THEN "exec" ELSE "idle"
          /\ result' = IF e.status = "exec" THEN "" ELSE e.status
    /\ runs' = runs + 1

NextProcessor == PreprocessProgram \/ CountedStep \/ Finish

SpecProcessor == Init /\ [][NextProcessor]_vars

\* ------------------------------------------------------- _execute_return

\* The frames _execute_call builds for a call of O200 from lines 0 to 3,
\* without and with an argument
Frames ==
    {[subroutine_name |-> 200, return_line |-> r, arguments |-> a] :
       r \in 1..4, a \in {<<>>, <<5>>}}

\* Deepest call stack, and most returns on it, in SpecReturn
MaxFrames == 2
MaxReturns == 3

CallStacks == UNION {[1..k -> Frames] : k \in 0..MaxFrames}

\* "O200 return" and "O200 return [7]"
ReturnBlocks == Numbered(<<Directive(200, "return"), DirectiveOn(200, "return", 7)>>, 0)

\* An OWordProcessor that has preprocessed the two return lines and whose
\* call stack holds some frames; pc is the value execute_o_word returned
InitReturn ==
    /\ interp \in {[preprocess_program([Interpreter EXCEPT !.blocks = ReturnBlocks]).I
                       EXCEPT !.call_stack = cs] : cs \in CallStacks}
    /\ pc = None
    /\ runs = 0
    /\ result = ""

\* execute_o_word on one of the return lines
ExecuteReturn ==
    /\ runs < MaxReturns
    /\ \E line \in DOMAIN interp.o_word_map :
          \E j \in {execute_o_word(interp, line)} :
             /\ interp' = j.I
             /\ pc' = j.next
    /\ runs' = runs + 1
    /\ UNCHANGED result

NextReturn == ExecuteReturn

SpecReturn == InitReturn /\ [][NextReturn]_vars

\* ---------------------------------------------------- toolpath statistics

(***************************************************************************)
(* The running lengths of GeometryManager are Python floats, so they are   *)
(* modelled on the exact binary64 values above.  The moves are along X     *)
(* from the origin: Point3D.distance_to computes sqrt(dx*dx + 0.0 + 0.0),  *)
(* and in binary floating point the correctly rounded root of the rounded  *)
(* square of dx is |dx|.  The arcs are half circles of radius 2^k around   *)
(* (2^k, 0): start angle atan2(0.0, -r) = math.pi, end angle 0.0.          *)
(***************************************************************************)

\* math.pi = 0x1.921fb54442d18p+1
Pi == Float(FALSE, 52707178, 71576856, -51)

\* x * 2^k
Scale(x, k) == IF x.mag = <<>> THEN x ELSE Dyadic(x.neg, x.mag, x.e + k)

\* Point3D.distance_to, two points of the X axis
distance_to(x1, x2) == Abs(FSub(x1, x2))

\* GeometrySegment.calculate_length: a linear move, and a half circle of
\* radius 2^radius_exp (radius * angle_diff, angle_diff = math.pi)
calculate_length(move_type, start_x, end_x, radius_exp) ==
    IF move_type \in {"rapid", "feed"} THEN distance_to(start_x, end_x)
    ELSE Scale(Pi, radius_exp)

\* GeometryManager.__init__ and clear, with the running lengths
Statistics ==
    [segments |-> <<>>, total_length |-> FloatOfInt(0),
     rapid_length |-> FloatOfInt(0), feed_length |-> FloatOfInt(0)]

\* add_linear_move, the statistics
add_linear_move_length(gm, start_x, end_x, move_type) ==
    LET length == calculate_length(move_type, start_x, end_x, 0)
    IN [segments |-> Append(gm.segments, [move_type |-> move_type, length |-> length]),
        total_length |-> FAdd(gm.total_length, length),
        rapid_length |-> IF move_type = "rapid" THEN FAdd(gm.rapid_length, length)
                         ELSE gm.rapid_length,
        feed_length |-> IF move_type = "feed" THEN FAdd(gm.feed_length, length)
                        ELSE gm.feed_length]

\* An add_arc_move that leaves the arc out of feed_length
add_arc_move_length_unfed(gm, radius_exp, direction) ==
    LET move_type == IF direction = "CW" THEN "arc_cw" ELSE "arc_ccw"
        length == calculate_length(move_type, FloatOfInt(0), FloatOfInt(0), radius_exp)
    IN [gm EXCEPT !.segments = Append(@, [move_type |-> move_type, length |-> length]),
                  !.total_length = FAdd(@, length)]

\* add_arc_move, the statistics ("Arcs are always feed moves")
add_arc_move_length(gm, radius_exp, direction) ==
    LET move_type == IF direction = "CW" THEN "arc_cw" ELSE "arc_ccw"
        length == calculate_length(move_type, FloatOfInt(0), FloatOfInt(0), radius_exp)
    IN [segments |-> Append(gm.segments, [move_type |-> move_type, length |-> length]),
        total_length |-> FAdd(gm.total_length, length),
        rapid_length |-> gm.rapid_length,
        feed_length |-> FAdd(gm.feed_length, length)]

\* GeometryManager.get_segments_by_type
get_segments_by_type(gm, move_type) ==
    SelectSeq(gm.segments, LAMBDA segment : segment.move_type = move_type)

\* GeometryManager.get_statistics
get_statistics(gm) ==
    [total_segments |-> Len(gm.segments),
     rapid_segments |-> Len(get_segments_by_type(gm, "rapid")),
     feed_segments |-> Len(get_segments_by_type(gm, "feed")),
     arc_segments |-> Len(get_segments_by_type(gm, "arc_cw"))
                      + Len(get_segments_by_type(gm, "arc_ccw")),
     total_length |-> gm.total_length,
     rapid_length |-> gm.rapid_length,
     feed_length |-> gm.feed_length]

\* The X values the linear moves end on: 1.0 and float("0.1")
MoveEnds == {FloatOfInt(1), Float0p1}

\* The radii of the half circles: 2^1
RadiusExponents == {1}

MaxMoves == 4

InitStatistics ==
    /\ interp = Statistics
    /\ pc = "geometry"
    /\ runs = 0
    /\ result = ""

AddLinearMove ==
    /\ runs < MaxMoves
    /\ \E end_x \in MoveEnds, move_type \in {"rapid", "feed"} :
         interp' = add_linear_move_length(interp, FloatOfInt(0), end_x, move_type)
    /\ runs' = runs + 1
    /\ UNCHANGED <<pc, result>>

AddArcMove ==
    /\ runs < MaxMoves
    /\ \E radius_exp \in RadiusExponents, direction \in {"CW", "CCW"} :
         interp' = add_arc_move_length(interp, radius_exp, direction)
    /\ runs' = runs + 1
    /\ UNCHANGED <<pc, result>>

Clear ==
    /\ runs < MaxMoves
    /\ interp' = Statistics
    /\ runs' = runs + 1
    /\ UNCHANGED <<pc, result>>

NextStatistics == AddLinearMove \/ AddArcMove \/ Clear

SpecStatistics == InitStatistics /\ [][NextStatistics]_vars

\* ----------------------------------------------------- comments in a line

\* A closed parenthetical comment "(text)" among the words of a line
Comment(text) == [l |-> "(", v |-> text]

\* _tokenize_line on a line of words and parenthetical comments: the words
\* before the first comment give their tokens, the comment gives a COMMENT
\* token and ends the loop ("Comments consume rest of line")
TokenizeLineWithComments(items, line_number) ==
    LET comments == {i \in DOMAIN items : items[i].l = "("}
        last == IF comments = {} THEN Len(items) ELSE SetMin(comments)
        token(i) == IF items[i].l = "("
                    THEN <<[type |-> "COMMENT", value |-> items[i].v,
                            line_number |-> line_number]>>
                    ELSE IF items[i].l \in TokenLetters
                    THEN <<[type |-> items[i].l, value |-> items[i].v,
                            line_number |-> line_number]>>
                    ELSE <<>>
    IN Concat([i \in 1..last |-> token(i)])

\* The words of the lines of SpecComment
CommentWords ==
    {W("G", G(0)), W("G", G(1)), W("M", 3), W("X", 1), W("Y", 2), W("F", 100)}

MaxWords == 2

\* The codes and the words of the blocks the parser returns for one line
CodesAndWords(items) ==
    LET blocks == Parse(<<TokenizeLineWithComments(items, 1)>>).blocks
    IN [k \in DOMAIN blocks |->
          [g_codes |-> blocks[k].g_codes, m_codes |-> blocks[k].m_codes, w |-> blocks[k].w]]

InitComment ==
    /\ interp \in [words : UNION {[1..k -> CommentWords] : k \in 1..MaxWords},
                   first : {None}, last : {None}]
    /\ pc = "idle"
    /\ runs = 0
    /\ result = ""

\* The line "(c) words" is tokenized and parsed
CommentFirst ==
    /\ interp.first = None
    /\ interp' = [interp EXCEPT !.first = Some(CodesAndWords(<<Comment("c")>> \o interp.words))]
    /\ UNCHANGED <<pc, runs, result>>

\* The line "words (c)" is tokenized and parsed
CommentLast ==
    /\ interp.last = None
    /\ interp' = [interp EXCEPT !.last = Some(CodesAndWords(interp.words \o <<Comment("c")>>))]
    /\ UNCHANGED <<pc, runs, result>>

NextComment == CommentFirst \/ CommentLast

SpecComment == InitComment /\ [][NextComment]_vars

\* ------------------------------------------------------------- properties

Segments == interp.geometry_manager.segments

\* The interpreter is between two process_gcode calls and has made one
Returned == pc = "idle" /\ runs >= 1

\* No coordinate-system offset was set before the run
DefaultOffsets ==
    interp.handlers_machine_state.coordinate_systems = MachineState.coordinate_systems

\* What a caller can see of a finished run: the diagnostics, the segments,
\* the MachineState the interpreter reports, the one the handlers hold, and
\* the two stacks of the O-word processor
Observable(I) ==
    [errors |-> I.errors,
     segments |-> I.geometry_manager.segments,
     machine_state |-> I.machine_state,
     handlers_machine_state |-> I.handlers_machine_state,
     call_stack |-> I.call_stack,
     loop_stack |-> I.loop_stack]

\* C1: process_gcode is idempotent on one instance: after process_gcode(A)
\* and then process_gcode(B) on one interpreter, the diagnostics, the
\* segments and the final machine state (position, modal groups, G92
\* offset, feed rate, call stack, loop stack) are those of process_gcode(B)
\* on a freshly constructed interpreter.
C1_Idempotent ==
    Returned => Observable(interp) = Observable(process_gcode(Interpreter, interp.current_gcode_text))

\* C2: on a fresh interpreter at the origin, the single line
\* G21 G90 G1 X10 Y0 F100 emits exactly one feed segment from (0,0,0) to
\* (10,0,0), and afterwards the position the interpreter reports
\* (machine_state.current_position) is (10,0,0).
C2_LinearFeed ==
    (Returned /\ DefaultOffsets /\ interp.current_gcode_text = <<LineC2>>)
    => /\ Len(Segments) = 1
       /\ Segments[1].move_type = "feed"
       /\ Segments[1].start_point = <<0, 0, 0>>
       /\ Segments[1].end_point = <<10, 0, 0>>
       /\ to_list(interp.machine_state.current_position) = <<10, 0, 0>>

\* The block the parser builds from line n of the text
SourceBlock(text, n) == Block(TokenizeLine(text[n], n).tokens, n)

\* The modal groups of which the block holds two or more distinct G-codes
ConflictGroups(block) ==
    {MODAL_GROUP_NAMES[k] : k \in {j \in DOMAIN MODAL_GROUP_NAMES :
         Cardinality(block.g_codes \cap MODAL_GROUPS[MODAL_GROUP_NAMES[j]]) >= 2}}

\* The SEMANTIC diagnostics of line n that name modal group g
GroupDiagnostics(errors, n, g) ==
    {i \in DOMAIN errors : /\ errors[i].line_number = n
                           /\ errors[i].error_type = "semantic"
                           /\ errors[i].message = "Multiple codes from modal group"
                           /\ errors[i].detail = g}

\* Every line of the text has a modal group conflict
AllConflict(text) == \A n \in DOMAIN text : ConflictGroups(SourceBlock(text, n)) # {}

\* Apart from the coordinate-system offsets a caller has set, the
\* MachineState is the default one
Untouched(ms) == [ms EXCEPT !.coordinate_systems = MachineState.coordinate_systems] = MachineState

\* C3: for every block that holds two or more distinct G-codes of one modal
\* group, the parser records exactly one SEMANTIC diagnostic for that
\* group, naming it, and the block is never executed: it is not among the
\* blocks to execute, no segment comes from its line, and a program made of
\* such blocks only leaves the machine state as it was.
C3_ModalConflict ==
    runs >= 1 =>
      /\ \A n \in DOMAIN interp.current_gcode_text :
            \A g \in ConflictGroups(SourceBlock(interp.current_gcode_text, n)) :
               /\ Cardinality(GroupDiagnostics(interp.errors, n, g)) = 1
               /\ \A i \in DOMAIN interp.blocks : interp.blocks[i].line_number # n
               /\ \A i \in DOMAIN Segments : Segments[i].line_number # n
      /\ AllConflict(interp.current_gcode_text) =>
            /\ Segments = <<>>
            /\ Untouched(interp.machine_state)
            /\ Untouched(interp.handlers_machine_state)

\* G90 G91 X1 followed by a rapid move: one diagnostic, for the first line,
\* and one segment, from the second
C3_Witness ==
    /\ Returned /\ result = "true"
    /\ interp.current_gcode_text = <<LineC3, Line(<<W("G", G(0)), W("X", 10)>>)>>
    /\ Len(interp.errors) = 1
    /\ interp.errors[1].detail = "distance"
    /\ Len(Segments) = 1
    /\ Segments[1].line_number = 2

\* The label and the keyword of a source line that is an O-word directive
IsDirective(line, kw) == line.kw = kw /\ line.words # <<>> /\ line.words[1].l = "O"

Closer(kw) ==
    CASE kw = "sub" -> "endsub"
      [] kw = "if" -> "endif"
      [] kw = "while" -> "endwhile"
      [] kw = "repeat" -> "endrepeat"

\* Line n opens a structure that no later line of the text closes
Unclosed(text, n) ==
    \E kw \in {"sub", "if", "while", "repeat"} :
       /\ IsDirective(text[n], kw)
       /\ ~\E m \in DOMAIN text : /\ m > n
                                  /\ IsDirective(text[m], Closer(kw))
                                  /\ text[m].words[1].v = text[n].words[1].v

HasSyntaxError(errors) == \E i \in DOMAIN errors : errors[i].error_type = "syntax"

\* C4: if the program holds an opener (sub, if, while, repeat) with no
\* closer of the same kind and label, process_gcode records a SYNTAX
\* diagnostic during preprocessing and execution is never attempted: no
\* block is executed, no segment is emitted and no handler changes the
\* machine state.
C4_UnmatchedOpener ==
    (runs >= 1 /\ \E n \in DOMAIN interp.current_gcode_text : Unclosed(interp.current_gcode_text, n))
    => /\ HasSyntaxError(interp.errors)
       /\ pc # "exec"
       /\ Segments = <<>>
       /\ Untouched(interp.handlers_machine_state)

\* The iteration of _execute_blocks that is about to run
Executing == pc = "exec" /\ interp.execution_line < Len(interp.blocks)

\* The source line of the block that is about to execute
CurrentLine == interp.current_gcode_text[interp.blocks[interp.execution_line + 1].line_number]

\* The index in the block list of the block made from source line n
BlockIndex(n) == CHOOSE i \in 0..(Len(interp.blocks) - 1) : interp.blocks[i + 1].line_number = n

\* The program defines subroutine label: a sub line and a later endsub line
DefinesSub(text, label) ==
    \E n, m \in DOMAIN text : /\ n < m
                               /\ IsDirective(text[n], "sub") /\ text[n].words[1].v = label
                               /\ IsDirective(text[m], "endsub") /\ text[m].words[1].v = label

SubHeader(text, label) ==
    CHOOSE n \in DOMAIN text : IsDirective(text[n], "sub") /\ text[n].words[1].v = label

\* C5: executing O<L> call [a1] ... [an] in a program that defines
\* subroutine L pushes exactly one frame whose return line is the call line
\* + 1, sets #1..#n to a1..an and continues at the line after the sub
\* header.
C5_Call ==
    [][(Executing /\ IsDirective(CurrentLine, "call")
          /\ DefinesSub(interp.current_gcode_text, CurrentLine.words[1].v))
       => /\ Len(interp'.call_stack) = Len(interp.call_stack) + 1
          /\ interp'.call_stack[Len(interp'.call_stack)].return_line = interp.execution_line + 1
          /\ \A k \in DOMAIN CurrentLine.expr :
                /\ k \in DOMAIN interp'.numbered_parameters
                /\ interp'.numbered_parameters[k] = CurrentLine.expr[k]
          /\ interp'.execution_line =
                BlockIndex(SubHeader(interp.current_gcode_text, CurrentLine.words[1].v)) + 1]_vars

\* Source line n is a break inside a while loop of its label: a while line
\* of the label before it and the endwhile line e of the label after it
BreakInWhile(text, n, e) ==
    /\ IsDirective(text[n], "break")
    /\ e > n /\ IsDirective(text[e], "endwhile") /\ text[e].words[1].v = text[n].words[1].v
    /\ \E w \in DOMAIN text : /\ w < n /\ IsDirective(text[w], "while")
                               /\ text[w].words[1].v = text[n].words[1].v
                               /\ text[w].expr # <<>> /\ text[w].expr[1] # 0
    /\ \A m \in DOMAIN text : (m # n /\ m # e) => ~IsDirective(text[m], "endwhile")

\* C6: a break for label L executed inside an active O<L> while loop sets
\* the program counter to the first line after the matching O<L> endwhile
\* and leaves no context of that loop on the loop stack.
C6_Break ==
    [][\A e \in DOMAIN interp.current_gcode_text :
         (Executing
            /\ BreakInWhile(interp.current_gcode_text,
                            interp.blocks[interp.execution_line + 1].line_number, e))
         => /\ interp'.execution_line = BlockIndex(e) + 1
            /\ \A i \in DOMAIN interp'.loop_stack :
                  interp'.loop_stack[i].label # CurrentLine.words[1].v]_vars

CurrentBlock == interp.blocks[interp.execution_line + 1]

\* A G0 or G1 block that names exactly one axis
SingleAxisMove(block) ==
    /\ block.g_codes \cap {G(0), G(1)} # {}
    /\ Cardinality(DOMAIN block.w \cap Axes) = 1

\* The step executed a block without a diagnostic and emitted one segment
Succeeded ==
    /\ interp'.errors = interp.errors
    /\ Len(interp'.geometry_manager.segments) = Len(Segments) + 1

\* C7: for every successful G0 or G1 block that names exactly one axis, the
\* new machine position (machine_state.current_position, the position the
\* interpreter reports) differs from the previous one on that axis only, in
\* G91 by exactly the programmed delta; the eight other axes keep their
\* previous value.
C7_SingleAxisFrame ==
    [][(Executing /\ SingleAxisMove(CurrentBlock) /\ Succeeded)
       => \A a \in Axes :
             IF a \in DOMAIN CurrentBlock.w
             THEN ~is_distance_mode_absolute(interp.handlers_machine_state)
                  => interp'.machine_state.current_position[a]
                       = interp.machine_state.current_position[a] + CurrentBlock.w[a]
             ELSE interp'.machine_state.current_position[a]
                    = interp.machine_state.current_position[a]]_vars

FeedMove(block) == block.g_codes \cap {G(1), G(2), G(3)} # {}

\* Neither the F word of the block nor the feed rate of the machine state
\* the interpreter reports is positive
NoPositiveFeed(block) ==
    /\ "f" \in DOMAIN block.w => block.w["f"] <= 0
    /\ interp.machine_state.feed_rate <= 0

PositionsUnchanged ==
    /\ interp'.machine_state.current_position = interp.machine_state.current_position
    /\ interp'.handlers_machine_state.current_position
         = interp.handlers_machine_state.current_position

\* The step recorded one more diagnostic, a SEMANTIC one
RecordedSemantic ==
    /\ Len(interp'.errors) = Len(interp.errors) + 1
    /\ interp'.errors[Len(interp'.errors)].error_type = "semantic"

\* C8: a G1, G2 or G3 block executed when neither the F word of the block
\* nor the inherited modal feed rate is positive records a SEMANTIC
\* diagnostic, emits no segment and leaves the machine position unchanged.
C8_FeedRequired ==
    [][(Executing /\ FeedMove(CurrentBlock) /\ NoPositiveFeed(CurrentBlock))
       => /\ RecordedSemantic
          /\ interp'.geometry_manager.segments = Segments
          /\ PositionsUnchanged]_vars

\* Exactly one segment, the clockwise arc from (0,0,0) to (10,0,0) with
\* center (5,0) and radius 5
OneArcC9 ==
    /\ Len(Segments) = 1
    /\ Segments[1].move_type = "arc_cw"
    /\ Segments[1].start_point = <<0, 0, 0>>
    /\ Segments[1].end_point = <<10, 0, 0>>
    /\ Segments[1].center_point = <<5, 0, 0>>
    /\ Segments[1].radius = Some(5)

\* C9 as stated: on a fresh interpreter at the origin, the single line
\* G2 X10 Y0 I5 J0 emits exactly one clockwise arc from (0,0,0) to (10,0,0)
\* with center (5,0) and radius 5.
C9_ArcNoFeed ==
    (Returned /\ DefaultOffsets /\ interp.current_gcode_text = <<LineC9>>) => OneArcC9

\* C9, amended: on a fresh interpreter at the origin, the single line
\* G2 X10 Y0 I5 J0 F100 (the arc with a positive feed rate) emits exactly
\* one clockwise arc from (0,0,0) to (10,0,0) with center (5,0) and radius
\* 5; without a feed rate the line emits nothing and records one SEMANTIC
\* diagnostic.
C9_ArcWithFeed ==
    /\ (Returned /\ DefaultOffsets /\ interp.current_gcode_text = <<LineC9F>>)
       => (OneArcC9 /\ interp.errors = <<>>)
    /\ (Returned /\ DefaultOffsets /\ interp.current_gcode_text = <<LineC9>>)
       => /\ Segments = <<>>
          /\ Len(interp.errors) = 1
          /\ interp.errors[1].error_type = "semantic"

\* The run of G2 X10 Y0 I5 J0 F100 has returned with its arc
C9_Witness ==
    /\ Returned /\ result = "true" /\ DefaultOffsets
    /\ interp.current_gcode_text = <<LineC9F>>
    /\ Len(Segments) = 1
    /\ Segments[1].center_point = <<5, 0, 0>>

\* A G2 or G3 block with axis words and none of R, I, J, K
ArcWithoutCenter(block) ==
    /\ block.g_codes \cap {G(2), G(3)} # {}
    /\ has_axis_words(block)
    /\ DOMAIN block.w \cap {"r", "i", "j", "k"} = {}

\* C10: a G2/G3 block with axis words and none of the words R, I, J, K is
\* rejected: a diagnostic is recorded, no arc is emitted and the machine
\* position is unchanged.
C10_ArcNeedsCenter ==
    [][(Executing /\ ArcWithoutCenter(CurrentBlock))
       => /\ Len(interp'.errors) > Len(interp.errors)
          /\ interp'.geometry_manager.segments = Segments
          /\ PositionsUnchanged]_vars

\* Position p of MachineState ms expressed relative to the active
\* coordinate system: minus its offset, minus the G92 offset
RelativeTo(ms, p, a) == p[a] - get_active_coordinate_system(ms)[a] - ms.g92_offset[a]

\* C11: after a successful G92 block, for every axis present in the block
\* the current position relative to the active coordinate system (position
\* minus coordinate-system offset minus G92 offset, on the MachineState the
\* handler writes) equals the value given in the block, for any prior
\* offsets; the G92 offsets of absent axes, the position and the geometry
\* are unchanged.
C11_G92 ==
    [][(Executing /\ G(92) \in CurrentBlock.g_codes /\ interp'.errors = interp.errors)
       => /\ \A a \in Axes :
               IF a \in DOMAIN CurrentBlock.w
               THEN RelativeTo(interp'.handlers_machine_state,
                               interp'.handlers_machine_state.current_position, a)
                      = CurrentBlock.w[a]
               ELSE interp'.handlers_machine_state.g92_offset[a]
                      = interp.handlers_machine_state.g92_offset[a]
          /\ PositionsUnchanged
          /\ interp'.geometry_manager = interp.geometry_manager]_vars

\* C12 as stated: converting an absolute position to relative coordinates
\* (subtracting both offsets) and back with calculate_absolute_position
\* returns the original position, for every position and every setting of
\* the offsets.
C12_RoundTripExact == pc = "back" => interp.absolute[1] = interp.current_abs

\* x * 2^k
Scaled(x, k) == IF x.mag = <<>> THEN x ELSE Dyadic(x.neg, x.mag, x.e + k)

\* An integer of magnitude below 2^50
SmallInteger(x) == x.e >= 0 /\ Len(x.mag) + x.e <= 50

\* C12, amended: the round trip returns the original position up to the
\* rounding of the four float operations: on each axis |result - original|
\* is at most 2^-50 * (|position| + |coordinate-system offset| + |G92
\* offset|), and the result is the original exactly when the position and
\* the two offsets are integers of magnitude below 2^50.
C12_RoundTripRounded ==
    pc = "back" =>
      /\ DyadicLeq(Abs(ExactAdd(interp.absolute[1], Neg(interp.current_abs))),
                   Scaled(ExactAdd(ExactAdd(Abs(interp.current_abs), Abs(interp.cs_offset)),
                                   Abs(interp.g92_offset)), -50))
      /\ (SmallInteger(interp.current_abs) /\ SmallInteger(interp.cs_offset)
            /\ SmallInteger(interp.g92_offset))
         => interp.absolute[1] = interp.current_abs

\* Position 2.6 with G92 offset 7.6 comes back as 2.5999999999999996
C12_Witness ==
    /\ pc = "back"
    /\ interp.current_abs = Float2p6
    /\ interp.cs_offset = FloatOfInt(0)
    /\ interp.g92_offset = Float7p6
    /\ interp.absolute[1] = Float(FALSE, 43620761, 80530636, -51)

\* The step is a call of validate_syntax_only
Validated == result' \in {"valid", "invalid"}

\* C13: the syntax-only check never destroys the main run's diagnostics:
\* after process_gcode(A) and then validate_syntax_only(B), get_all_errors()
\* still returns exactly the diagnostics that process_gcode(A) recorded.
C13_DiagnosticsKept == [][(Validated /\ runs >= 1) => interp'.errors = interp.errors]_vars

\* C14: validate_syntax_only executes no handler: the machine state, the
\* segments and line mappings, the variables, the parsed blocks of the last
\* run and the call and loop stacks are the same after the call as before.
C14_NoExecution == [][Validated => [interp' EXCEPT !.errors = interp.errors] = interp]_vars

\* A text with a modal conflict was checked after a run that emitted a
\* segment
C14_Witness ==
    /\ result = "invalid"
    /\ runs >= 1
    /\ Segments # <<>>
    /\ \E i \in DOMAIN interp.errors : interp.errors[i].message = "Multiple codes from modal group"

\* The machine state and the segments a run left
Outcome(I) ==
    [machine_state |-> I.machine_state,
     handlers_machine_state |-> I.handlers_machine_state,
     segments |-> I.geometry_manager.segments]

\* C15: for a valid block the result of execution does not depend on the
\* order of the words in the source line: two lines that are permutations
\* of the same words leave the same machine state and emit the same
\* segments.
C15_WordOrder ==
    (Returned /\ interp.errors = <<>>) =>
       \A q \in Reorderings(interp.current_gcode_text[1].words) :
          Outcome(process_gcode(Interpreter, <<Line(q)>>)) = Outcome(interp)

\* The G-codes that GCodeHandlers.handlers has a handler for
GHandled ==
    {G(0), G(1), G(2), G(3), G(4), G(10), G(17), G(18), G(19), G(20), G(21), G(28), G(90),
     G(91), G(92)}

\* The M-codes of the block that have no handler of any kind
MWithoutHandler(block) ==
    {m \in block.m_codes : m \notin MHandled /\ m \notin DOMAIN interp.custom_handlers}

\* The M-codes of the block whose handler raises
MRaising(block) ==
    {m \in block.m_codes : m \in DOMAIN interp.custom_handlers
                              /\ interp.custom_handlers[m] = "raise"}

\* The G-codes of the block that have no handler
GWithoutHandler(block) == block.g_codes \ GHandled

\* The step recorded one more diagnostic, of the given type and of
\* severity error, on the line of the block
Recorded(type) ==
    /\ Len(interp'.errors) = Len(interp.errors) + 1
    /\ interp'.errors[Len(interp'.errors)].error_type = type
    /\ interp'.errors[Len(interp'.errors)].severity = "error"
    /\ interp'.errors[Len(interp'.errors)].line_number = CurrentBlock.line_number

\* No G-code of the block was executed: the segments and the position,
\* modal groups and offsets of the handlers' MachineState are as before
NoGCodeExecuted ==
    /\ interp'.geometry_manager = interp.geometry_manager
    /\ interp'.handlers_machine_state.current_position
         = interp.handlers_machine_state.current_position
    /\ interp'.handlers_machine_state.modal_groups = interp.handlers_machine_state.modal_groups
    /\ interp'.handlers_machine_state.g92_offset = interp.handlers_machine_state.g92_offset

\* The G-codes above the first G-code without a handler were not executed
\* (the distance mode is as before when a G90 or G91 is among them)
LaterGCodesNotExecuted ==
    (CurrentBlock.g_codes \cap {G(90), G(91)} # {} /\ SetMin(GWithoutHandler(CurrentBlock)) < G(90))
       => interp'.handlers_machine_state.modal_groups["distance"]
            = interp.handlers_machine_state.modal_groups["distance"]

\* The run goes on with the next block
ContinuesWithNextBlock ==
    /\ interp'.execution_line = interp.execution_line + 1
    /\ pc' = "exec"

Effects(ms) ==
    [modal_groups |-> ms.modal_groups,
     feed_rate |-> ms.feed_rate,
     spindle_speed |-> ms.spindle_speed,
     current_tool |-> ms.current_tool,
     coordinate_systems |-> ms.coordinate_systems,
     g92_offset |-> ms.g92_offset,
     current_position |-> ms.current_position]

\* A handler of the block reported failure with an error-severity
\* diagnostic
BlockFailed ==
    /\ Executing
    /\ Len(interp'.errors) > Len(interp.errors)
    /\ interp'.errors[Len(interp'.errors)].severity = "error"

\* C17: a block whose execution fails withholds its own effects: when a
\* handler of the block reports failure with an error-severity diagnostic,
\* the modal groups, feed rate, spindle speed, current tool, offsets and
\* position after the block equal their values before the block.
C17_Withheld ==
    [][BlockFailed => /\ Effects(interp'.machine_state) = Effects(interp.machine_state)
                      /\ Effects(interp'.handlers_machine_state)
                           = Effects(interp.handlers_machine_state)]_vars

\* The warnings among the diagnostics
Warnings(errors) == {i \in DOMAIN errors : errors[i].severity = "warning"}

C19_NumberedParameters ==
    [][/\ result' = "true" <=> (1 <= pc'.number /\ pc'.number <= 5399)
       /\ result' = "true" => get_numbered_parameter(interp', pc'.number) = pc'.value
       /\ result' = "false" => interp' = interp]_vars

\* C20: after any sequence of emitted moves within a run, segment ids are
\* 0..n-1 in emission order, and the line index and its inverse agree: every
\* segment s is among the segments returned for line s.line_number,
\* get_line_for_geometry(s.segment_id) = s.line_number, and every id listed
\* for a line belongs to a segment emitted by that line.
C20_SegmentIndex ==
    /\ \A i \in DOMAIN Segments : Segments[i].segment_id = i - 1
    /\ \A i \in DOMAIN Segments :
          /\ \E k \in DOMAIN get_segments_for_line(interp.geometry_manager, Segments[i].line_number) :
                get_segments_for_line(interp.geometry_manager, Segments[i].line_number)[k] = Segments[i]
          /\ get_line_for_geometry(interp.geometry_manager, Segments[i].segment_id)
               = Some(Segments[i].line_number)
    /\ \A line \in DOMAIN interp.geometry_manager.line_to_segments :
          \A k \in DOMAIN interp.geometry_manager.line_to_segments[line] :
             \E i \in DOMAIN Segments :
                /\ Segments[i].segment_id = interp.geometry_manager.line_to_segments[line][k]
                /\ Segments[i].line_number = line
    /\ \A line \in 1..MaxLines :
          \A k \in DOMAIN highlight_geometry_for_line(interp.geometry_manager, line) :
             get_line_for_geometry(interp.geometry_manager,
                                   highlight_geometry_for_line(interp.geometry_manager, line)[k])
               = Some(line)

\* Two lines have each emitted a segment
C20_Witness ==
    /\ Len(Segments) = 2
    /\ Segments[1].line_number = 1
    /\ Segments[2].line_number = 2
    /\ highlight_geometry_for_line(interp.geometry_manager, 2) = <<1>>

\* The M100-M199 codes of the block that have no registered handler
Unimplemented(block) == MWithoutHandler(block) \cap (100..199)

\* The block without its unimplemented custom M-codes
WithoutUnimplemented(block) == [block EXCEPT !.m_codes = @ \ Unimplemented(block)]

\* The diagnostics that are not warnings
NotWarnings(errors) == SelectSeq(errors, LAMBDA e : e.severity # "warning")

\* C21: executing an M-code in 100..199 that has no registered custom
\* handler records a diagnostic of severity warning (never error or fatal),
\* changes no machine state, and does not abort the block: the remaining
\* codes of the block are still executed and has_errors() does not become
\* true because of it.  The step leaves what the block without that M-code
\* would leave, and one warning more for each such M-code.
C21_CustomWarning ==
    [][(Executing /\ Unimplemented(CurrentBlock) # {}) =>
         /\ [interp' EXCEPT !.errors = <<>>]
              = [execute_block(interp, WithoutUnimplemented(CurrentBlock)).I
                   EXCEPT !.errors = <<>>, !.execution_line = @ + 1]
         /\ NotWarnings(interp'.errors)
              = NotWarnings(execute_block(interp, WithoutUnimplemented(CurrentBlock)).I.errors)
         /\ Cardinality(Warnings(interp'.errors))
              = Cardinality(Warnings(interp.errors)) + Cardinality(Unimplemented(CurrentBlock))
         /\ has_errors(interp'.errors)
              = has_errors(execute_block(interp, WithoutUnimplemented(CurrentBlock)).I.errors)]_vars

\* M150 had no handler on line 1: the run recorded one warning and no
\* error, and the rapid move of the same line was emitted
C21_Witness ==
    /\ Returned
    /\ interp.custom_handlers = <<>>
    /\ Len(interp.errors) = 1
    /\ interp.errors[1].severity = "warning"
    /\ ~has_errors(interp.errors)
    /\ Len(Segments) = 1
    /\ Segments[1].line_number = 1
    /\ CustomMCode \in interp.blocks[1].m_codes

\* C22: the parser returns one Block for every source line that has
\* tokens: a block that fails modal-group validation is still present in
\* the list returned by parse.
C22_BlockPerLine ==
    runs >= 1 =>
       \A n \in DOMAIN interp.current_gcode_text :
          Tokenize(interp.current_gcode_text).lines[n] # <<>>
             => \E i \in DOMAIN interp.blocks : interp.blocks[i].line_number = n

\* The block of the step is an R-form arc whose half chord, from the
\* position before the step to its target, is greater than |R|
HalfChordExceedsRadius ==
    /\ "r" \in DOMAIN pc'.params
    /\ (get_target_position(interp.position, pc')["x"] - interp.position["x"])
          * (get_target_position(interp.position, pc')["x"] - interp.position["x"])
        + (get_target_position(interp.position, pc')["y"] - interp.position["y"])
          * (get_target_position(interp.position, pc')["y"] - interp.position["y"])
        > 4 * pc'.params["r"] * pc'.params["r"]

\* C23: for an R-form arc whose half chord length is greater than |R|, the
\* arc is reported as an error and no arc command with a substituted
\* center is emitted; the machine position is unchanged.
C23_ImpossibleArc ==
    [][HalfChordExceedsRadius =>
         /\ Len(interp'.errors) = Len(interp.errors) + 1
         /\ interp'.canon_commands = interp.canon_commands
         /\ interp'.position = interp.position]_vars

\* The keyword of the directive a block holds ("" for a block without one)
Keyword(block) == IF Len(block.o_word) >= 2 THEN block.o_word[2].s ELSE ""

\* The label of the directive a block holds
LabelOf(block) == block.o_word[1].n

\* The positions in the block list of the directives with the keyword
Holding(blocks, kw) == {i \in DOMAIN blocks : Keyword(blocks[i]) = kw}

\* The only directives of the list are sub and endsub, and every sub is
\* closed by the endsub of its label before the next sub
SubsClosed(blocks) ==
    LET subs == SortedSeq(Holding(blocks, "sub"))
        ends == SortedSeq(Holding(blocks, "endsub"))
    IN /\ subs # <<>>
       /\ \A i \in DOMAIN blocks : Keyword(blocks[i]) \in {"", "sub", "endsub"}
       /\ Len(subs) = Len(ends)
       /\ \A k \in DOMAIN subs :
             /\ subs[k] < ends[k]
             /\ LabelOf(blocks[subs[k]]) = LabelOf(blocks[ends[k]])
             /\ k < Len(subs) => ends[k] < subs[k + 1]

\* C24: after preprocess_program on a program where every O<L> sub is
\* closed by the matching O<L> endsub, preprocessing succeeds without a
\* diagnostic and the subroutine table holds exactly one entry per label,
\* from the line of a sub header to the line of its endsub.
C24_SubroutineTable ==
    [][(pc = "idle" /\ runs = 0 /\ SubsClosed(interp'.blocks)) =>
         /\ pc' = "exec"
         /\ interp'.errors = <<>>
         /\ DOMAIN interp'.subroutines
               = {LabelOf(interp'.blocks[i]) : i \in Holding(interp'.blocks, "sub")}
         /\ \A label \in DOMAIN interp'.subroutines :
               \E i \in Holding(interp'.blocks, "sub"), j \in Holding(interp'.blocks, "endsub") :
                  /\ i < j
                  /\ LabelOf(interp'.blocks[i]) = label
                  /\ LabelOf(interp'.blocks[j]) = label
                  /\ interp'.subroutines[label].start_line = i - 1
                  /\ interp'.subroutines[label].end_line = j - 1]_vars

\* The block about to execute holds "O<L> <kw> [<e>]" with e = guard
Guarded(kws, guards) ==
    /\ Executing
    /\ Len(CurrentBlock.o_word) = 3
    /\ Keyword(CurrentBlock) \in kws
    /\ CurrentBlock.o_word[3].n \in guards

\* The positions after the current block of the directives of its label
\* with one of the keywords
Later(kws) ==
    {j \in DOMAIN interp.blocks :
       /\ j > interp.execution_line + 1
       /\ Keyword(interp.blocks[j]) \in kws
       /\ LabelOf(interp.blocks[j]) = LabelOf(CurrentBlock)}

\* C25: when the guard of a while evaluates to false, the program counter
\* jumps to the line after the matching endwhile, no loop context is
\* pushed and no line of the body is executed.
C25_WhileFalse ==
    [][(Guarded({"while"}, {0}) /\ Later({"endwhile"}) # {}) =>
         /\ interp'.execution_line = SetMin(Later({"endwhile"}))
         /\ interp'.loop_stack = interp.loop_stack
         /\ interp'.geometry_manager = interp.geometry_manager]_vars

\* The block list is a repeat loop around one move, alone or before one
\* more move
RepeatProgram ==
    /\ Len(interp.blocks) \in {3, 4}
    /\ Len(interp.blocks[1].o_word) = 3
    /\ Keyword(interp.blocks[1]) = "repeat"
    /\ interp.blocks[2].o_word = <<>>
    /\ Keyword(interp.blocks[3]) = "endrepeat"
    /\ Len(interp.blocks) = 4 => interp.blocks[4].o_word = <<>>

\* How many times the block of the line was executed: each execution of a
\* move block adds one segment
Executions(line_number) ==
    Cardinality({i \in DOMAIN Segments : Segments[i].line_number = line_number})

\* C26: the body of O<L> repeat [n] ... O<L> endrepeat is executed exactly
\* n times when n > 0 and not at all when n <= 0, and after the loop ends
\* the loop stack holds no context for L.
C26_Repeat ==
    (pc = "idle" /\ result = "true" /\ RepeatProgram) =>
       /\ Executions(interp.blocks[2].line_number)
             = IF interp.blocks[1].o_word[3].n > 0 THEN interp.blocks[1].o_word[3].n ELSE 0
       /\ MatchingLoop(interp.loop_stack, LabelOf(interp.blocks[1])) = 0

\* C27: when the guard of an if or elseif evaluates to false, execution
\* jumps to the next elseif, else or endif of the same conditional, and no
\* line of the skipped branch is executed.
C27_ConditionalFalse ==
    [][(Guarded({"if", "elseif"}, {0}) /\ Later({"elseif", "else", "endif"}) # {}) =>
         /\ interp'.execution_line = SetMin(Later({"elseif", "else", "endif"})) - 1
         /\ interp'.geometry_manager = interp.geometry_manager]_vars

AtCommand(type) ==
    /\ Executing
    /\ interp.execution_line \in DOMAIN interp.o_word_map
    /\ interp.o_word_map[interp.execution_line].type = type

CurrentCommand == interp.o_word_map[interp.execution_line]

\* C29: a call for a label that is not in the subroutine table records a
\* RUNTIME diagnostic and aborts the call: no frame is pushed, no numbered
\* parameter is changed and execution continues at the next line.
C29_UndefinedCall ==
    [][(AtCommand("call") /\ CurrentCommand.label \notin DOMAIN interp.subroutines) =>
         /\ Recorded("runtime")
         /\ interp'.errors[Len(interp'.errors)].message = "Undefined subroutine"
         /\ interp'.call_stack = interp.call_stack
         /\ interp'.numbered_parameters = interp.numbered_parameters
         /\ interp'.execution_line = interp.execution_line + 1]_vars

\* A call of O200 on line 1 was refused and the move on line 2 executed
C29_Witness ==
    /\ Len(interp.errors) = 1
    /\ interp.errors[1].message = "Undefined subroutine"
    /\ interp.errors[1].line_number = 1
    /\ interp.call_stack = <<>>
    /\ interp.numbered_parameters = <<>>
    /\ Len(Segments) = 1
    /\ Segments[1].line_number = 2

\* C30: a break or continue whose label matches no context on the loop
\* stack records a RUNTIME diagnostic, leaves the loop stack unchanged and
\* falls through; a matching continue never changes the loop stack.
C30_BreakContinue ==
    [][/\ ((AtCommand("break") \/ AtCommand("continue"))
            /\ MatchingLoop(interp.loop_stack, CurrentCommand.label) = 0) =>
              /\ Recorded("runtime")
              /\ interp'.loop_stack = interp.loop_stack
              /\ interp'.execution_line = interp.execution_line + 1
       /\ (AtCommand("continue")
            /\ MatchingLoop(interp.loop_stack, CurrentCommand.label) # 0) =>
              interp'.loop_stack = interp.loop_stack]_vars

\* Inside the loop O100 a break of O200 was refused, and a continue of O100
\* led back to the while line, which opened the loop again
C30_Witness ==
    /\ Len(interp.loop_stack) = 2
    /\ \A i \in DOMAIN interp.loop_stack : interp.loop_stack[i].label = 100
    /\ Len(interp.errors) = 1
    /\ interp.errors[1].message = "Break outside of loop"
    /\ interp.errors[1].detail = "break"

\* The block of the line has axis words, a motion code and a group 0 code
Group0WithMotion(block) ==
    /\ block.g_codes \cap MODAL_GROUPS["non_modal"] # {}
    /\ block.g_codes \cap MODAL_GROUPS["motion"] # {}
    /\ has_axis_words(block)

\* The diagnostics the parser recorded for the line
ParserDiagnostics(n) ==
    {i \in DOMAIN interp.errors :
       /\ interp.errors[i].line_number = n
       /\ interp.errors[i].message \in {"Group 0 code conflicts with motion code",
                                         "Multiple codes from modal group"}}

MotionCodes == {G(0), G(1), G(2), G(3), G(28)}

\* The step changed the position of one of the two MachineState objects
PositionChanged ==
    \/ interp'.handlers_machine_state.current_position
          # interp.handlers_machine_state.current_position
    \/ interp'.machine_state.current_position # interp.machine_state.current_position

\* C32: the machine position changes only inside a motion handler (G0, G1,
\* G2, G3, G28) that succeeds, and every such change emits exactly one
\* segment from the old position to the new one; so within one run every
\* segment starts where the previous segment ended.
C32_PositionBySegments ==
    /\ [][PositionChanged =>
             /\ Executing
             /\ CurrentBlock.g_codes \cap MotionCodes # {}
             /\ interp'.machine_state.current_position = interp.machine_state.current_position
             /\ Len(interp'.geometry_manager.segments) = Len(Segments) + 1
             /\ SubSeq(interp'.geometry_manager.segments, 1, Len(Segments)) = Segments
             /\ interp'.geometry_manager.segments[Len(Segments) + 1].start_point
                   = to_list(interp.handlers_machine_state.current_position)
             /\ interp'.geometry_manager.segments[Len(Segments) + 1].end_point
                   = to_list(interp'.handlers_machine_state.current_position)]_vars
    /\ [](\A i \in DOMAIN Segments :
             i > 1 => Segments[i].start_point = Segments[i - 1].end_point)

\* Two moves of one run, the second from the end of the first to the
\* position the machine is left at
C32_Witness ==
    /\ Returned
    /\ Len(Segments) = 2
    /\ Segments[1].start_point # Segments[1].end_point
    /\ Segments[2].start_point = Segments[1].end_point
    /\ Segments[2].end_point # Segments[2].start_point
    /\ Segments[2].end_point = to_list(interp.handlers_machine_state.current_position)

\* The G-codes that set the plane, the units or the distance mode, and the
\* modal group of each
ModeCodes == {G(17), G(18), G(19), G(20), G(21), G(90), G(91)}

ModeGroup(code) ==
    CASE code \in {G(17), G(18), G(19)} -> "plane"
      [] code \in {G(20), G(21)} -> "units"
      [] code \in {G(90), G(91)} -> "distance"

WithoutModes(block) == [block EXCEPT !.g_codes = @ \ ModeCodes]

\* C33: a motion code (G0..G3) executes before a G17/G18/G19, G20/G21 or
\* G90/G91 of the same block: the move of the block is resolved with the
\* plane and distance mode in force before the block, and the new mode is
\* in force after the block (when the move did not fail).
C33_MotionBeforeModes ==
    [][(/\ Executing
        /\ CurrentBlock.g_codes \cap {G(0), G(1), G(2), G(3)} # {}
        /\ CurrentBlock.g_codes \cap ModeCodes # {}) =>
          /\ interp'.geometry_manager
                = execute_block(interp, WithoutModes(CurrentBlock)).I.geometry_manager
          /\ interp'.handlers_machine_state.current_position
                = execute_block(interp, WithoutModes(CurrentBlock)).I.handlers_machine_state.current_position
          /\ interp'.errors = execute_block(interp, WithoutModes(CurrentBlock)).I.errors
          /\ \A code \in CurrentBlock.g_codes \cap ModeCodes :
                /\ execute_block(interp, WithoutModes(CurrentBlock)).ok
                      => interp'.handlers_machine_state.modal_groups[ModeGroup(code)] = code
                /\ ~execute_block(interp, WithoutModes(CurrentBlock)).ok
                      => interp'.handlers_machine_state.modal_groups[ModeGroup(code)]
                           = interp.handlers_machine_state.modal_groups[ModeGroup(code)]]_vars

\* From X10, "G91 G1 X3 F100" moved to X3 (absolute) and left the distance
\* mode incremental: the "G0 X1" after it moved to X4
C33_Witness ==
    /\ Returned
    /\ Len(Segments) = 3
    /\ Segments[1].end_point = <<10, 0, 0>>
    /\ G(91) \in interp.blocks[2].g_codes
    /\ Segments[2].end_point = <<3, 0, 0>>
    /\ interp.blocks[3].g_codes = {G(0)}
    /\ Segments[3].end_point = <<4, 0, 0>>
    /\ interp.handlers_machine_state.modal_groups["distance"] = G(91)

\* C34: at every point of execution the loop stack holds at most one
\* context per loop label: re-evaluating a while guard, reached through
\* endwhile or through continue, never leaves two contexts of the same
\* loop on the stack.
C34_OneContextPerLoop ==
    \A i, j \in DOMAIN interp.loop_stack :
       i # j => interp.loop_stack[i].label # interp.loop_stack[j].label

\* The positions before the current block of the if directives of its
\* label
EarlierIfs ==
    {j \in DOMAIN interp.blocks :
       /\ j < interp.execution_line + 1
       /\ Keyword(interp.blocks[j]) = "if"
       /\ LabelOf(interp.blocks[j]) = LabelOf(CurrentBlock)}

\* The block about to execute is the else or elseif of a conditional whose
\* if line, the nearest one before it, had a true guard
AfterTrueBranch ==
    /\ Executing
    /\ Keyword(CurrentBlock) \in {"else", "elseif"}
    /\ Cardinality(Holding(interp.blocks, "else") \cup Holding(interp.blocks, "elseif")) = 1
    /\ EarlierIfs # {}
    /\ Len(interp.blocks[SetMax(EarlierIfs)].o_word) = 3
    /\ interp.blocks[SetMax(EarlierIfs)].o_word[3].n # 0
    /\ \A j \in (SetMax(EarlierIfs) + 1)..interp.execution_line :
          Keyword(interp.blocks[j]) = ""

\* C35: in one pass through an if/elseif/else/endif chain at most one
\* branch body is executed: after a branch whose guard was true has run,
\* reaching the following elseif or else line skips to the matching endif
\* instead of running that branch too.
C35_OneBranch ==
    [][(AfterTrueBranch /\ Later({"endif"}) # {}) =>
         /\ interp'.execution_line = SetMin(Later({"endif"})) - 1
         /\ interp'.geometry_manager = interp.geometry_manager]_vars

\* C36: for every O-word directive, the keyword _get_command_text gives
\* for it is the keyword of the directive's own block, whatever the line
\* numbers of the blocks are; it never fails because of a neighbouring
\* line.
C36_OwnKeyword ==
    runs >= 1 =>
       \A line \in DOMAIN interp.o_word_map :
          /\ ~get_command_text(interp.blocks, interp.o_word_map[line]).raised
          /\ get_command_text(interp.blocks, interp.o_word_map[line]).text
                = Keyword(interp.blocks[line + 1])

\* The segment counts of get_statistics add up to the stored segments
CountsConsistent(s) ==
    /\ s.total_segments = s.rapid_segments + s.feed_segments + s.arc_segments
    /\ s.total_segments = Len(interp.segments)

RECURSIVE Times(_, _)
\* n * x, exactly
Times(n, x) ==
    IF n = 0 THEN FloatOfInt(0)
    ELSE IF n = 1 THEN x
    ELSE IF n % 2 = 0 THEN Scale(Times(n \div 2, x), 1)
    ELSE ExactAdd(x, Scale(Times(n \div 2, x), 1))

\* Every stored length is an integer
IntegerLengths == \A i \in DOMAIN interp.segments : interp.segments[i].length.e >= 0

BlocksInSourceOrder ==
    \A i, j \in DOMAIN interp.blocks :
       i < j => interp.blocks[i].line_number < interp.blocks[j].line_number

\* What a step does to the program counter: _execute_blocks starts at 0,
\* an iteration moves it by one and leaves the blocks alone, and the loop
\* ends only at the number of blocks
ProgramCounterStep ==
    /\ pc = "idle" /\ pc' = "exec" => interp'.execution_line = 0
    /\ Executing => /\ pc' = "exec"
                    /\ interp'.execution_line = interp.execution_line + 1
                    /\ interp'.blocks = interp.blocks
    /\ pc = "exec" /\ pc' = "idle" =>
          /\ interp.execution_line = Len(interp.blocks)
          /\ interp' = interp

C39_NamedRoundTrip ==
    pc.at = "got" =>
       IF pc.name \in DOMAIN predefined_named
       THEN /\ result = "false"
            /\ pc.returned = pc.before
            /\ interp.predefined_named = predefined_named
       ELSE result = "true" /\ pc.returned = pc.value

\* C40: a closed parenthetical comment does not end the line: the words
\* that follow it are tokenized and reach the block, so "(c) words" and
\* "words (c)" give blocks with the same codes and axis words.
C40_CommentPosition ==
    interp.first # None /\ interp.last # None => interp.first = interp.last

====
